---- MODULE Spec2Model ----
(***************************************************************************)
(* A model of the sqlBits statement Builder (package sqlBits): the SQL     *)
(* text buffer, the parameter table and parameter-set table, the modal     *)
(* flags (prefix, operator, IS NULL mode), the transaction nesting counter *)
(* and the positional rendering.                                           *)
(*                                                                         *)
(* Go strings are TLA+ strings (Len, \o and SubSeq work on them).  A Go    *)
(* pointer is a sequence of length 0 (nil) or 1 (the pointee).  A Go map   *)
(* is a function whose DOMAIN is its key set; maps are reference values,   *)
(* so the Builder struct holds a reference into a heap of maps.            *)
(***************************************************************************)
EXTENDS Integers, Sequences, FiniteSets, TLC

VARIABLES
    bld,          \* [Builders -> Builder struct]
    heapParams,   \* [Refs -> map[string]*string]
    heapSets,     \* [Refs -> map[string]*[]string]
    dbModel,      \* the DbModeler every builder is bound to
    dbCalls,      \* the DbTransactioner calls made so far, with their caller
    hist,         \* the transaction operations called so far
    lastOp,       \* the last Builder method called, its arguments and result
    panicked      \* TRUE once a method has panicked

vars == <<bld, heapParams, heapSets, dbModel, dbCalls, hist, lastOp, panicked>>

-----------------------------------------------------------------------------
(* Bounds *)

MaxHist == 6        \* transaction operations in one behaviour
MaxSqlLen == 5       \* longest SQL text a method is called on
MaxSuffix == 4      \* largest numbered key bound before GetUniqueParamKey
MaxArgs == 2        \* positional arguments already collected when SQL is called

-----------------------------------------------------------------------------
(* Pointers *)

Nil == <<>>
Ptr(x) == <<x>>
Deref(p) == p[1]

-----------------------------------------------------------------------------
(* package strings / strconv *)

Digits == <<"0", "1", "2", "3", "4", "5", "6", "7", "8", "9">>

RECURSIVE Itoa(_)
Itoa(n) ==
    IF n < 0 THEN "-" \o Itoa(0 - n)
    ELSE IF n < 10 THEN Digits[n + 1]
    ELSE Itoa(n \div 10) \o Digits[(n % 10) + 1]

CharAt(s, i) == SubSeq(s, i, i)

HasPrefixAt(s, i, sub) ==
    /\ i + Len(sub) - 1 <= Len(s)
    /\ SubSeq(s, i, i + Len(sub) - 1) = sub

\* strings.Index, as a 1-based position; 0 when sub does not occur
RECURSIVE IndexFrom(_, _, _)
IndexFrom(s, sub, i) ==
    IF i + Len(sub) - 1 > Len(s) THEN 0
    ELSE IF HasPrefixAt(s, i, sub) THEN i
    ELSE IndexFrom(s, sub, i + 1)

Index(s, sub) == IndexFrom(s, sub, 1) - 1

Contains(s, sub) == IndexFrom(s, sub, 1) > 0

\* strings.Replace(s, old, new, n) for a non-empty old; n < 0 means all
RECURSIVE Replace(_, _, _, _)
Replace(s, old, new, n) ==
    LET i == IndexFrom(s, old, 1) IN
    IF n = 0 \/ i = 0 THEN s
    ELSE SubSeq(s, 1, i - 1) \o new \o
         Replace(SubSeq(s, i + Len(old), Len(s)), old, new,
                 IF n < 0 THEN n ELSE n - 1)

RECURSIVE TrimLeft(_, _)
TrimLeft(s, cutset) ==
    IF Len(s) > 0 /\ CharAt(s, 1) \in cutset
    THEN TrimLeft(SubSeq(s, 2, Len(s)), cutset) ELSE s

RECURSIVE TrimRight(_, _)
TrimRight(s, cutset) ==
    IF Len(s) > 0 /\ CharAt(s, Len(s)) \in cutset
    THEN TrimRight(SubSeq(s, 1, Len(s) - 1), cutset) ELSE s

WhiteSpace == {" ", "\t", "\n", "\r"}

TrimSpace(s) == TrimRight(TrimLeft(s, WhiteSpace), WhiteSpace)

RECURSIVE Join(_, _)
Join(list, sep) ==
    IF Len(list) = 0 THEN ""
    ELSE IF Len(list) = 1 THEN list[1]
    ELSE list[1] \o sep \o Join(Tail(list), sep)

-----------------------------------------------------------------------------
(* Go maps *)

EmptyMap == [k \in {} |-> Nil]

HasKey(m, k) == k \in DOMAIN m

MapPut(m, k, v) == [x \in (DOMAIN m) \cup {k} |-> IF x = k THEN v ELSE m[x]]

\* for k, v := range src { dst[k] = v }
MapMerge(dst, src) ==
    [x \in (DOMAIN dst) \cup (DOMAIN src) |->
        IF x \in DOMAIN src THEN src[x] ELSE dst[x]]

\* the orders in which a range statement may visit the keys of a map
KeyOrders(m) ==
    {o \in [1..Cardinality(DOMAIN m) -> DOMAIN m] :
        \A i, j \in DOMAIN o : i # j => o[i] # o[j]}

-----------------------------------------------------------------------------
(* consts.go *)

ORDER_BY_ASCENDING == "ASC"
ORDER_BY_DESCENDING == "DESC"
FIELD_LIST_HINT_START == "/* FIELDLIST */"
FIELD_LIST_HINT_END == "/* /FIELDLIST */"
OPERATOR_NOT_EQUAL == "<>"

-----------------------------------------------------------------------------
(* drivers.go *)

MySQL == "MySQL"
PostgreSQL == "PostgreSQL"
SQLite == "SQLite3"

\* U+0060, the MySQL delimiter, cannot be written in a TLA+ string: the
\* apostrophe stands for it.
BackTick == "'"
DoubleQuote == "\""

\* DriverInfo.SetDriverName: the delimiter that goes with a driver name
SetDriverName(driverName) ==
    [Name |-> driverName,
     IdentifierDelimiter |->
        IF driverName = MySQL THEN BackTick
        ELSE IF driverName = PostgreSQL THEN DoubleQuote
        ELSE IF driverName = SQLite THEN DoubleQuote
        ELSE ""]

\* what DbMetatater.GetDbMeta may return: a registered driver, with or
\* without support for named parameters
DriverInfo(driverName, named) ==
    [Name |-> driverName,
     IdentifierDelimiter |-> SetDriverName(driverName).IdentifierDelimiter,
     SupportsNamedParams |-> named]

DriverInfos ==
    {DriverInfo(n, named) : n \in {MySQL, PostgreSQL, SQLite}, named \in BOOLEAN}

-----------------------------------------------------------------------------
(* The world the Builder methods act on *)

Builders == {"b1", "b2"}
Refs == {"m1", "m2"}

World ==
    [bld |-> bld, hp |-> heapParams, hs |-> heapSets, db |-> dbModel,
     calls |-> dbCalls, panic |-> panicked]

Params(w, b) == w.hp[w.bld[b].myParams]
SetParams(w, b) == w.hs[w.bld[b].mySetParams]
Fld(w, b, f) == w.bld[b][f]
SetFld(w, b, f, v) == [w EXCEPT !.bld[b][f] = v]

\* a map object no builder other than b refers to
FreshRef(w, b) ==
    CHOOSE r \in Refs : \A o \in Builders \ {b} :
        w.bld[o].myParams # r /\ w.bld[o].mySetParams # r

-----------------------------------------------------------------------------
(* Builder: construction *)

Reset_KeepsNullMode(w, b) ==
    LET r == FreshRef(w, b) IN
    [w EXCEPT !.bld[b].mySql = "",
              !.bld[b].myParams = r,
              !.bld[b].mySetParams = r,
              !.hp[r] = EmptyMap,
              !.hs[r] = EmptyMap,
              !.bld[b].myParamPrefix = " ",
              !.bld[b].myParamOperator = "="]

\* Reset
Reset(w, b) ==
    LET r == FreshRef(w, b) IN
    [w EXCEPT !.bld[b].mySql = "",
              !.bld[b].myParams = r,
              !.bld[b].mySetParams = r,
              !.hp[r] = EmptyMap,
              !.hs[r] = EmptyMap,
              !.bld[b].myParamPrefix = " ",
              !.bld[b].myParamOperator = "=",
              !.bld[b].bUseIsNull = FALSE]

\* the zero value of the Builder struct, new(Builder)
ZeroBuilder ==
    [myDbModel |-> Nil,
     myTransactionFlag |-> 0,
     myDataSource |-> Nil,
     mySql |-> "",
     myParams |-> "nil",
     myOrdQuerySql |-> "",
     myOrdQueryArgs |-> <<>>,
     mySetParams |-> "nil",
     myParamPrefix |-> "",
     myParamOperator |-> "",
     bUseIsNull |-> FALSE]

\* a panic: the call does not return
Panic(w) == [w EXCEPT !.panic = TRUE]

WithModel_NoCheck(w, b, aDbModeler) ==
    Reset([w EXCEPT !.bld[b].myDbModel = aDbModeler], b)

\* WithModel; aDbModeler is Nil or Ptr("db")
WithModel(w, b, aDbModeler) ==
    IF aDbModeler = Nil
    THEN Panic(w)
    ELSE Reset([w EXCEPT !.bld[b].myDbModel = aDbModeler], b)

\* b = NewBuilder(aDbModeler): b is assigned only if the call returns
NewBuilder(w, b, aDbModeler) ==
    LET w1 == WithModel([w EXCEPT !.bld[b] = ZeroBuilder], b, aDbModeler)
    IN IF w1.panic THEN Panic(w) ELSE w1

-----------------------------------------------------------------------------
(* Builder: transactions *)

\* the DbTransactioner the builders are bound to
DbInTransaction(w) == w.db.inTransaction

DbBeginTransaction(w, by) ==
    [w EXCEPT !.db.inTransaction = TRUE,
              !.calls = Append(@, [call |-> "Begin", by |-> by])]

DbCommitTransaction(w, by) ==
    [w EXCEPT !.db.inTransaction = FALSE,
              !.calls = Append(@, [call |-> "Commit", by |-> by])]

DbRollbackTransaction(w, by) ==
    [w EXCEPT !.db.inTransaction = FALSE,
              !.calls = Append(@, [call |-> "Rollback", by |-> by])]

BeginTransaction(w, b) ==
    LET w1 == IF Fld(w, b, "myTransactionFlag") < 1 /\ ~DbInTransaction(w)
              THEN DbBeginTransaction(w, b) ELSE w
    IN SetFld(w1, b, "myTransactionFlag", Fld(w1, b, "myTransactionFlag") + 1)

CommitTransaction_NoFloor(w, b) ==
    LET w1 == SetFld(w, b, "myTransactionFlag", Fld(w, b, "myTransactionFlag") - 1)
    IN IF Fld(w1, b, "myTransactionFlag") = 0
       THEN DbCommitTransaction(w1, b) ELSE w1

CommitTransaction_Eager(w, b) ==
    IF Fld(w, b, "myTransactionFlag") > 0
    THEN DbCommitTransaction(
            SetFld(w, b, "myTransactionFlag", Fld(w, b, "myTransactionFlag") - 1), b)
    ELSE w

CommitTransaction(w, b) ==
    IF Fld(w, b, "myTransactionFlag") > 0
    THEN LET w1 == SetFld(w, b, "myTransactionFlag",
                          Fld(w, b, "myTransactionFlag") - 1)
         IN IF Fld(w1, b, "myTransactionFlag") = 0
            THEN DbCommitTransaction(w1, b) ELSE w1
    ELSE w

RollbackTransaction_Eager(w, b) ==
    IF Fld(w, b, "myTransactionFlag") > 0
    THEN DbRollbackTransaction(
            SetFld(w, b, "myTransactionFlag", Fld(w, b, "myTransactionFlag") - 1), b)
    ELSE w

RollbackTransaction(w, b) ==
    IF Fld(w, b, "myTransactionFlag") > 0
    THEN LET w1 == SetFld(w, b, "myTransactionFlag",
                          Fld(w, b, "myTransactionFlag") - 1)
         IN IF Fld(w1, b, "myTransactionFlag") = 0
            THEN DbRollbackTransaction(w1, b) ELSE w1
    ELSE w

-----------------------------------------------------------------------------
(* IDataSource: a data source answers for every key *)

DsUndefined == [defined |-> FALSE, isList |-> FALSE, value |-> Nil, list |-> Nil]
DsNull == [defined |-> TRUE, isList |-> FALSE, value |-> Nil, list |-> Nil]
DsScalar(v) == [defined |-> TRUE, isList |-> FALSE, value |-> Ptr(v), list |-> Nil]
DsNilList == [defined |-> TRUE, isList |-> TRUE, value |-> Nil, list |-> Nil]
DsList(l) == [defined |-> TRUE, isList |-> TRUE, value |-> Nil, list |-> Ptr(l)]

DsEntry(ds, k) == IF k \in DOMAIN ds THEN ds[k] ELSE DsUndefined

IsKeyDefined(ds, k) == DsEntry(ds, k).defined
IsKeyValueAList(ds, k) == DsEntry(ds, k).isList
GetValueForKey(ds, k) == DsEntry(ds, k).value
GetValueListForKey(ds, k) == DsEntry(ds, k).list

-----------------------------------------------------------------------------
(* Builder: context and parameter tables *)

GetQuoted_NoEscape(w, b, aIdentifier) ==
    LET delim == w.db.info.IdentifierDelimiter IN
    delim \o aIdentifier \o delim

\* GetQuoted
GetQuoted(w, b, aIdentifier) ==
    LET delim == w.db.info.IdentifierDelimiter IN
    delim \o Replace(aIdentifier, delim, delim \o delim, -1) \o delim

StartWith_Appends(w, b, aSql) == SetFld(w, b, "mySql", Fld(w, b, "mySql") \o aSql)

StartWith(w, b, aSql) == SetFld(w, b, "mySql", aSql)

SetParamPrefix(w, b, aStr) == SetFld(w, b, "myParamPrefix", aStr)

SetParamOperator_Verbatim(w, b, aStr) == SetFld(w, b, "myParamOperator", aStr)

SetParamOperator(w, b, aStr) ==
    SetFld(w, b, "myParamOperator", Replace(aStr, "!=", OPERATOR_NOT_EQUAL, -1))

StartFilter_KeepsText(w, b) ==
    LET w1 == SetFld(w, b, "bUseIsNull", TRUE)
        driverName == w1.db.info.Name
        w2 == IF Fld(w1, b, "mySql") # "" THEN w1
              ELSE IF driverName = MySQL THEN StartWith(w1, b, "1")
              ELSE StartWith(w1, b, "true")
    IN SetParamPrefix(w2, b, " AND ")

StartFilter(w, b) ==
    LET w1 == SetFld(w, b, "bUseIsNull", TRUE)
        driverName == w1.db.info.Name
        w2 == IF driverName = MySQL THEN StartWith(w1, b, "1")
              ELSE IF driverName = PostgreSQL THEN StartWith(w1, b, "true")
              ELSE StartWith(w1, b, "true")
    IN SetParamPrefix(w2, b, " AND ")

SetDataSource(w, b, aDataSource) == SetFld(w, b, "myDataSource", aDataSource)

SetNullableParam(w, b, aParamKey, aParamValue) ==
    [w EXCEPT !.hp[w.bld[b].myParams] = MapPut(@, aParamKey, aParamValue)]

SetParam(w, b, aParamKey, aParamValue) ==
    SetNullableParam(w, b, aParamKey, Ptr(aParamValue))

SetParamSet_KeepScalar(w, b, aParamKey, aParamValues) ==
    [w EXCEPT !.hs[w.bld[b].mySetParams] = MapPut(@, aParamKey, aParamValues)]

SetParamSet(w, b, aParamKey, aParamValues) ==
    [w EXCEPT !.hp[w.bld[b].myParams] = MapPut(@, aParamKey, Nil),
              !.hs[w.bld[b].mySetParams] = MapPut(@, aParamKey, aParamValues)]

IsParamASet(w, b, aParamKey) ==
    IF HasKey(Params(w, b), aParamKey)
    THEN HasKey(SetParams(w, b), aParamKey)
    ELSE IF Fld(w, b, "myDataSource") # Nil
    THEN IsKeyValueAList(Deref(Fld(w, b, "myDataSource")), aParamKey)
    ELSE FALSE

GetParam(w, b, aParamKey) ==
    IF HasKey(Params(w, b), aParamKey) THEN Params(w, b)[aParamKey] ELSE Nil

GetParamSet(w, b, aParamKey) ==
    IF HasKey(SetParams(w, b), aParamKey) THEN SetParams(w, b)[aParamKey] ELSE Nil

\* the loop of GetUniqueParamKey, entered with suffix counter i
RECURSIVE UniqueKeyLoop(_, _, _, _)
UniqueKeyLoop(m, aParamKey, theKey, i) ==
    IF HasKey(m, theKey)
    THEN UniqueKeyLoop(m, aParamKey, aParamKey \o Itoa(i + 1), i + 1)
    ELSE theKey

GetUniqueParamKey_FromOne(w, b, aParamKey) ==
    UniqueKeyLoop(Params(w, b), aParamKey, aParamKey, 0)

GetUniqueParamKey(w, b, aParamKey) ==
    UniqueKeyLoop(Params(w, b), aParamKey, aParamKey, 1)

StartWhereClause(w, b) ==
    SetParamPrefix(SetFld(w, b, "bUseIsNull", TRUE), b, " WHERE ")

EndWhereClause_ClearsPrefix(w, b) ==
    SetParamPrefix(SetFld(w, b, "bUseIsNull", FALSE), b, " ")

EndWhereClause(w, b) == SetFld(w, b, "bUseIsNull", FALSE)

Add_Overwrite(w, b, aStr) == SetFld(w, b, "mySql", " " \o aStr)

Add(w, b, aStr) == SetFld(w, b, "mySql", Fld(w, b, "mySql") \o " " \o aStr)

getParamValueFromDataSource(w, b, aParamKey) ==
    IF Fld(w, b, "myDataSource") # Nil
    THEN LET ds == Deref(Fld(w, b, "myDataSource")) IN
         IF IsKeyValueAList(ds, aParamKey)
         THEN SetParamSet(w, b, aParamKey, GetValueListForKey(ds, aParamKey))
         ELSE SetNullableParam(w, b, aParamKey, GetValueForKey(ds, aParamKey))
    ELSE w

\* a *[]string that is nil or points to an empty slice
IsEmptySet(valSet) == valSet = Nil \/ Len(Deref(valSet)) = 0

SetParamValueIfNull(w, b, aParamKey, aNewValue) ==
    LET w1 == getParamValueFromDataSource(w, b, aParamKey)
        isSet == IsParamASet(w1, b, aParamKey)
        valSet == GetParamSet(w1, b, aParamKey)
    IN IF isSet /\ IsEmptySet(valSet)
       THEN SetParam(w1, b, aParamKey, aNewValue)
       ELSE IF ~isSet /\ GetParam(w1, b, aParamKey) = Nil
       THEN SetParam(w1, b, aParamKey, aNewValue)
       ELSE w1

SetParamValueIfEmpty_NullOnly(w, b, aParamKey, aNewValue) ==
    SetParamValueIfNull(w, b, aParamKey, aNewValue)

SetParamValueIfEmpty(w, b, aParamKey, aNewValue) ==
    LET w1 == getParamValueFromDataSource(w, b, aParamKey)
        isSet == IsParamASet(w1, b, aParamKey)
        valSet == GetParamSet(w1, b, aParamKey)
        val == GetParam(w1, b, aParamKey)
    IN IF isSet /\ IsEmptySet(valSet)
       THEN SetParam(w1, b, aParamKey, aNewValue)
       ELSE IF ~isSet /\ (val = Nil \/ Deref(val) = "" \/ Deref(val) = "0")
       THEN SetParam(w1, b, aParamKey, aNewValue)
       ELSE w1

isDataKeyDefined_NoSource(w, b, aDataKey) ==
    IF Fld(w, b, "myDataSource") # Nil
    THEN IsKeyDefined(Deref(Fld(w, b, "myDataSource")), aDataKey)
    ELSE TRUE

isDataKeyDefined(w, b, aDataKey) ==
    IF Fld(w, b, "myDataSource") # Nil
    THEN IsKeyDefined(Deref(Fld(w, b, "myDataSource")), aDataKey)
    ELSE FALSE

-----------------------------------------------------------------------------
(* Builder: appending bound parameters *)

\* the range loop of addParamAsListForColumn, at element i of the list
RECURSIVE ParamListLoop(_, _, _, _, _)
ParamListLoop(w, b, aParamKey, list, i) ==
    IF i > Len(list) THEN w
    ELSE LET theParamKey == aParamKey \o "_" \o Itoa(i)
             w1 == SetFld(w, b, "mySql",
                          Fld(w, b, "mySql") \o ":" \o theParamKey \o ",")
         IN ParamListLoop(SetParam(w1, b, theParamKey, list[i]),
                          b, aParamKey, list, i + 1)

addParamAsListForColumn(w, b, aColumnName, aParamKey, aDataValuesList) ==
    IF aDataValuesList # Nil /\ Len(Deref(aDataValuesList)) > 0
    THEN LET w1 == SetFld(w, b, "mySql",
                      Fld(w, b, "mySql") \o Fld(w, b, "myParamPrefix")
                          \o GetQuoted(w, b, aColumnName))
             w2 == SetFld(w1, b, "mySql",
                      Fld(w1, b, "mySql") \o Fld(w1, b, "myParamOperator") \o "(")
             w3 == ParamListLoop(w2, b, aParamKey, Deref(aDataValuesList), 1)
         IN SetFld(w3, b, "mySql", TrimRight(Fld(w3, b, "mySql"), {","}) \o ")")
    ELSE w

\* the switch that turns "=" into " IN " and "<>" into " NOT IN "
SetOperatorFor_NoRemap(op) == op

SetOperatorFor(op) ==
    IF TrimSpace(op) = "=" THEN " IN "
    ELSE IF TrimSpace(op) = OPERATOR_NOT_EQUAL THEN " NOT IN "
    ELSE op

addingParamSet_NoRestore(w, b, aColName, aParamKey, valSet) ==
    LET saveParamOp == Fld(w, b, "myParamOperator")
        w1 == SetFld(w, b, "myParamOperator", SetOperatorFor(saveParamOp))
    IN addParamAsListForColumn(w1, b, aColName, aParamKey, valSet)

\* addingParam, the branch of a non-empty value set
addingParamSet(w, b, aColName, aParamKey, valSet) ==
    LET saveParamOp == Fld(w, b, "myParamOperator")
        w1 == SetFld(w, b, "myParamOperator", SetOperatorFor(saveParamOp))
        w2 == addParamAsListForColumn(w1, b, aColName, aParamKey, valSet)
    IN SetFld(w2, b, "myParamOperator", saveParamOp)

addingParamScalar_NullBlind(w, b, aColName, aParamKey) ==
    IF GetParam(w, b, aParamKey) # Nil \/ Fld(w, b, "bUseIsNull")
    THEN SetFld(w, b, "mySql",
                Fld(w, b, "mySql") \o Fld(w, b, "myParamPrefix")
                    \o GetQuoted(w, b, aColName)
                    \o Fld(w, b, "myParamOperator") \o ":" \o aParamKey)
    ELSE IF TrimSpace(Fld(w, b, "myParamOperator")) = "="
    THEN SetFld(w, b, "mySql",
                Fld(w, b, "mySql") \o Fld(w, b, "myParamPrefix")
                    \o GetQuoted(w, b, aColName) \o " IS NULL")
    ELSE IF TrimSpace(Fld(w, b, "myParamOperator")) = OPERATOR_NOT_EQUAL
    THEN SetFld(w, b, "mySql",
                Fld(w, b, "mySql") \o Fld(w, b, "myParamPrefix")
                    \o GetQuoted(w, b, aColName) \o " IS NOT NULL")
    ELSE w

addingParamScalar_DefaultIsNull(w, b, aColName, aParamKey) ==
    IF GetParam(w, b, aParamKey) # Nil \/ ~Fld(w, b, "bUseIsNull")
    THEN SetFld(w, b, "mySql",
                Fld(w, b, "mySql") \o Fld(w, b, "myParamPrefix")
                    \o GetQuoted(w, b, aColName)
                    \o Fld(w, b, "myParamOperator") \o ":" \o aParamKey)
    ELSE IF TrimSpace(Fld(w, b, "myParamOperator")) = OPERATOR_NOT_EQUAL
    THEN SetFld(w, b, "mySql",
                Fld(w, b, "mySql") \o Fld(w, b, "myParamPrefix")
                    \o GetQuoted(w, b, aColName) \o " IS NOT NULL")
    ELSE SetFld(w, b, "mySql",
                Fld(w, b, "mySql") \o Fld(w, b, "myParamPrefix")
                    \o GetQuoted(w, b, aColName) \o " IS NULL")

\* addingParam, the else branch: a scalar, a null or an empty set
addingParamScalar(w, b, aColName, aParamKey) ==
    IF GetParam(w, b, aParamKey) # Nil \/ ~Fld(w, b, "bUseIsNull")
    THEN SetFld(w, b, "mySql",
                Fld(w, b, "mySql") \o Fld(w, b, "myParamPrefix")
                    \o GetQuoted(w, b, aColName)
                    \o Fld(w, b, "myParamOperator") \o ":" \o aParamKey)
    ELSE IF TrimSpace(Fld(w, b, "myParamOperator")) = "="
    THEN SetFld(w, b, "mySql",
                Fld(w, b, "mySql") \o Fld(w, b, "myParamPrefix")
                    \o GetQuoted(w, b, aColName) \o " IS NULL")
    ELSE IF TrimSpace(Fld(w, b, "myParamOperator")) = OPERATOR_NOT_EQUAL
    THEN SetFld(w, b, "mySql",
                Fld(w, b, "mySql") \o Fld(w, b, "myParamPrefix")
                    \o GetQuoted(w, b, aColName) \o " IS NOT NULL")
    ELSE w

addingParam(w, b, aColName, aParamKey) ==
    LET isSet == IsParamASet(w, b, aParamKey)
        valSet == GetParamSet(w, b, aParamKey)
    IN IF isSet /\ valSet # Nil /\ Len(Deref(valSet)) > 0
       THEN addingParamSet(w, b, aColName, aParamKey, valSet)
       ELSE addingParamScalar(w, b, aColName, aParamKey)

AppendParam(w, b, aParamKey, aParamValue) ==
    addingParam(SetParam(w, b, aParamKey, aParamValue), b, aParamKey, aParamKey)

MustAddParamForColumn(w, b, aParamKey, aColumnName) ==
    addingParam(getParamValueFromDataSource(w, b, aParamKey),
                b, aColumnName, aParamKey)

MustAddParam(w, b, aParamKey) == MustAddParamForColumn(w, b, aParamKey, aParamKey)

AddParamIfDefined(w, b, aParamKey) ==
    IF isDataKeyDefined(w, b, aParamKey)
    THEN addingParam(getParamValueFromDataSource(w, b, aParamKey),
                     b, aParamKey, aParamKey)
    ELSE w

AddParamForColumnIfDefined(w, b, aParamKey, aColumnName) ==
    IF isDataKeyDefined(w, b, aParamKey)
    THEN addingParam(getParamValueFromDataSource(w, b, aParamKey),
                     b, aColumnName, aParamKey)
    ELSE w

-----------------------------------------------------------------------------
(* Builder: field lists, limits, composition *)

AddFieldList(w, b, aFieldList) ==
    LET pfx == Fld(w, b, "myParamPrefix")
        theFieldListStr ==
            IF aFieldList # Nil /\ Len(Deref(aFieldList)) > 0
            THEN pfx \o Join(Deref(aFieldList), ", " \o pfx)
            ELSE pfx \o "*"
    IN Add(w, b, theFieldListStr)

AddQueryLimit_OffsetAlways(w, b, aLimit, aOffset) ==
    IF aLimit > 0 /\ Fld(w, b, "myDbModel") # Nil
    THEN LET driverName == w.db.info.Name IN
         IF driverName = MySQL THEN w
         ELSE IF driverName = PostgreSQL THEN w
         ELSE LET w1 == Add(Add(w, b, "LIMIT"), b, Itoa(aLimit)) IN
              Add(Add(w1, b, "OFFSET"), b, Itoa(aOffset))
    ELSE w

AddQueryLimit(w, b, aLimit, aOffset) ==
    IF aLimit > 0 /\ Fld(w, b, "myDbModel") # Nil
    THEN LET driverName == w.db.info.Name IN
         IF driverName = MySQL THEN w
         ELSE IF driverName = PostgreSQL THEN w
         ELSE LET w1 == Add(Add(w, b, "LIMIT"), b, Itoa(aLimit)) IN
              IF aOffset > 0
              THEN Add(Add(w1, b, "OFFSET"), b, Itoa(aOffset))
              ELSE w1
    ELSE w

MergeParams_KeepCaller(w, b, from) ==
    LET w1 == [w EXCEPT !.hp[w.bld[b].myParams] = MapMerge(Params(w, from), @)]
    IN [w1 EXCEPT !.hs[w1.bld[b].mySetParams] = MapMerge(SetParams(w1, from), @)]

\* the two range loops that copy a builder's tables into another's
MergeParams(w, b, from) ==
    LET w1 == [w EXCEPT !.hp[w.bld[b].myParams] = MapMerge(@, Params(w, from))]
    IN [w1 EXCEPT !.hs[w1.bld[b].mySetParams] = MapMerge(@, SetParams(w1, from))]

AddSubQueryForColumn_NoMerge(w, b, aSubQuery, aColumnName) ==
    LET saveParamOp == Fld(w, b, "myParamOperator")
        w1 == SetFld(w, b, "myParamOperator", SetOperatorFor(saveParamOp))
        w2 == SetFld(w1, b, "mySql",
                  Fld(w1, b, "mySql") \o Fld(w1, b, "myParamPrefix")
                      \o GetQuoted(w1, b, aColumnName)
                      \o Fld(w1, b, "myParamOperator")
                      \o "(" \o Fld(w1, aSubQuery, "mySql") \o ")")
    IN SetFld(w2, b, "myParamOperator", saveParamOp)

AddSubQueryForColumn(w, b, aSubQuery, aColumnName) ==
    LET saveParamOp == Fld(w, b, "myParamOperator")
        w1 == SetFld(w, b, "myParamOperator", SetOperatorFor(saveParamOp))
        w2 == SetFld(w1, b, "mySql",
                  Fld(w1, b, "mySql") \o Fld(w1, b, "myParamPrefix")
                      \o GetQuoted(w1, b, aColumnName)
                      \o Fld(w1, b, "myParamOperator")
                      \o "(" \o Fld(w1, aSubQuery, "mySql") \o ")")
        w3 == SetFld(w2, b, "myParamOperator", saveParamOp)
    IN MergeParams(w3, b, aSubQuery)

\* ApplyFilter for a non-nil filter
ApplyFilter(w, b, aFilter) ==
    LET w1 == IF Fld(w, aFilter, "mySql") # ""
              THEN SetFld(w, b, "mySql",
                       Fld(w, b, "mySql") \o Fld(w, b, "myParamPrefix")
                           \o Fld(w, aFilter, "mySql"))
              ELSE w
    IN MergeParams(w1, b, aFilter)

-----------------------------------------------------------------------------
(* Builder: ORDER BY *)

LowerCase == "abcdefghijklmnopqrstuvwxyz"
UpperCase == "ABCDEFGHIJKLMNOPQRSTUVWXYZ"

RECURSIVE ToUpper(_)
ToUpper(s) ==
    IF Len(s) = 0 THEN ""
    ELSE LET i == IndexFrom(LowerCase, CharAt(s, 1), 1) IN
         (IF i > 0 THEN CharAt(UpperCase, i) ELSE CharAt(s, 1))
             \o ToUpper(SubSeq(s, 2, Len(s)))

\* the entries of the ORDER BY clause, in the order the range loop visits
\* the keys of the list
RECURSIVE OrderByEntries(_, _)
OrderByEntries(aOrderByList, order) ==
    IF Len(order) = 0 THEN <<>>
    ELSE LET k == order[1]
             theEntry ==
                IF ToUpper(TrimSpace(aOrderByList[k])) = ORDER_BY_DESCENDING
                THEN k \o " " \o ORDER_BY_DESCENDING
                ELSE k \o " " \o ORDER_BY_ASCENDING
         IN <<theEntry>> \o OrderByEntries(aOrderByList, Tail(order))

ApplyOrderByList_OneAdd(w, b, aOrderByList, order) ==
    IF aOrderByList # Nil /\ Fld(w, b, "myDbModel") # Nil
    THEN Add(w, b, "ORDER BY"
                 \o Join(OrderByEntries(Deref(aOrderByList), order), ","))
    ELSE w

\* ApplyOrderByList for a list pointer (Nil or Ptr(map)); order is the
\* iteration order of the map
ApplyOrderByList(w, b, aOrderByList, order) ==
    IF aOrderByList # Nil /\ Fld(w, b, "myDbModel") # Nil
    THEN Add(Add(w, b, "ORDER BY"), b,
             Join(OrderByEntries(Deref(aOrderByList), order), ","))
    ELSE w

ApplySortList(w, b, aSortList, order) == ApplyOrderByList(w, b, aSortList, order)

-----------------------------------------------------------------------------
(* package regexp, as far as the two patterns of the Builder go *)

RepeatOps == {"*", "+", "?"}

\* regexp/syntax under the POSIX flags has no Perl extensions: "(?" opens an
\* ordinary group, and a repetition operator right after "(" or "|" or at
\* the start has nothing to repeat ("missing argument to repetition
\* operator"), so CompilePOSIX returns an error and MustCompilePOSIX panics.
MissingRepeatArgument(re) ==
    \E i \in 1 .. Len(re) :
        /\ CharAt(re, i) \in RepeatOps
        /\ (i = 1 \/ CharAt(re, i - 1) \in {"(", "|"})

\* A pattern without groups is a sequence of items: an atom (a literal or
\* ".") repeated between lo and 1 or unboundedly many times.  Stacked
\* repetition operators fold into one.
RECURSIVE ReItems(_)
ReItems(re) ==
    IF Len(re) = 0 THEN <<>>
    ELSE IF Len(re) > 1 /\ CharAt(re, 2) \in RepeatOps
    THEN LET rest == ReItems(SubSeq(re, 3, Len(re)))
             q == CharAt(re, 2)
             it == [atom |-> CharAt(re, 1),
                    lo |-> IF q = "+" THEN 1 ELSE 0,
                    many |-> q # "?"]
         IN <<it>> \o rest
    ELSE <<[atom |-> CharAt(re, 1), lo |-> 1, many |-> FALSE]>>
             \o ReItems(SubSeq(re, 2, Len(re)))

\* "x+?" parses as "(x+)?" and so on: fold a run of operators into the atom
RECURSIVE FoldRepeats(_)
FoldRepeats(re) ==
    IF Len(re) < 3 THEN re
    ELSE IF CharAt(re, 2) \in RepeatOps /\ CharAt(re, 3) \in RepeatOps
    THEN LET q1 == CharAt(re, 2)
             q2 == CharAt(re, 3)
             q == IF q1 = q2 THEN q1
                  ELSE IF {q1, q2} = {"+", "?"} THEN "*"
                  ELSE "*"
         IN FoldRepeats(CharAt(re, 1) \o q \o SubSeq(re, 4, Len(re)))
    ELSE CharAt(re, 1) \o FoldRepeats(SubSeq(re, 2, Len(re)))

AtomMatches(atom, c) == IF atom = "." THEN c # "\n" ELSE atom = c

\* the positions after which a match of items[n..] ends, when it starts
\* right after position p of s
RECURSIVE ReEnds(_, _, _, _)
ReEnds(s, items, n, p) ==
    IF n > Len(items) THEN {p}
    ELSE LET it == items[n]
             run == {e \in p .. Len(s) :
                        \A x \in (p + 1) .. e : AtomMatches(it.atom, CharAt(s, x))}
             ok == {e \in run : e - p >= it.lo /\ (it.many \/ e - p <= 1)}
         IN UNION {ReEnds(s, items, n + 1, e) : e \in ok}

SetMax(S) == CHOOSE x \in S : \A y \in S : y <= x

\* Regexp.ReplaceAllString for a POSIX (leftmost-longest) pattern whose
\* matches are never empty and a replacement without "$"
RECURSIVE ReplaceAllString(_, _, _, _)
ReplaceAllString(items, s, from, repl) ==
    IF from > Len(s) THEN ""
    ELSE LET ends == ReEnds(s, items, 1, from - 1) \ {from - 1} IN
         IF ends # {}
         THEN repl \o ReplaceAllString(items, s, SetMax(ends) + 1, repl)
         ELSE CharAt(s, from) \o ReplaceAllString(items, s, from + 1, repl)

RePatternHinted == "(?i)SELECT /* FIELDLIST */ .+? /* /FIELDLIST */ FROM"
RePatternPlain == "(?i)SELECT .+? FROM"

-----------------------------------------------------------------------------
(* Builder: replacing the SELECT fields, rendering, cloning *)

\* ReplaceSelectFieldsWith for a *[]string (Nil or Ptr(list))
ReplaceSelectFieldsWith(w, b, aSelectFields) ==
    IF aSelectFields # Nil /\ Len(Deref(aSelectFields)) > 0
    THEN LET re == IF Index(Fld(w, b, "mySql"), FIELD_LIST_HINT_START) > 0
                      /\ Index(Fld(w, b, "mySql"), FIELD_LIST_HINT_END) > 0
                   THEN RePatternHinted
                   ELSE RePatternPlain
         IN IF MissingRepeatArgument(re)
            THEN Panic(w)
            ELSE SetFld(w, b, "mySql",
                     ReplaceAllString(ReItems(FoldRepeats(re)),
                                      Fld(w, b, "mySql"), 1,
                                      Join(Deref(aSelectFields), ", ")))
    ELSE w

GetSQLStatement(w, b) == Fld(w, b, "mySql")

\* SQL converts when the driver has no named parameters
SQLConverts(w, b) ==
    /\ Cardinality(DOMAIN Params(w, b)) > 0
    /\ Fld(w, b, "myDbModel") # Nil
    /\ ~w.db.info.SupportsNamedParams

\* the range loop of SQL over the keys in order[n..], next ordinal i
RECURSIVE SQLLoop(_, _, _, _, _)
SQLLoop(w, b, order, n, i) ==
    IF n > Len(order) THEN w
    ELSE LET k == order[n]
             v == Params(w, b)[k]
             theOldKey == ":" \o k
             theNewKey == "$" \o Itoa(i)
         IN IF Contains(Fld(w, b, "myOrdQuerySql"), theOldKey) /\ v # Nil
            THEN LET w1 == SetFld(w, b, "myOrdQuerySql",
                               Replace(Fld(w, b, "myOrdQuerySql"),
                                       theOldKey, theNewKey, 1))
                     w2 == SetFld(w1, b, "myOrdQueryArgs",
                               Append(Fld(w1, b, "myOrdQueryArgs"), Deref(v)))
                 IN SQLLoop(w2, b, order, n + 1, i + 1)
            ELSE SQLLoop(w, b, order, n + 1, i)

SQL_InPlace(w, b, order) ==
    IF SQLConverts(w, b)
    THEN LET w1 == SQLLoop(SetFld(w, b, "myOrdQuerySql", Fld(w, b, "mySql")),
                           b, order, 1, 1)
         IN SetFld(w1, b, "mySql", Fld(w1, b, "myOrdQuerySql"))
    ELSE w

\* the builder after SQL(); order is the iteration order of myParams
SQL(w, b, order) ==
    IF SQLConverts(w, b)
    THEN SQLLoop(SetFld(w, b, "myOrdQuerySql", Fld(w, b, "mySql")), b, order, 1, 1)
    ELSE w

\* the string SQL() returns
SQLResult(w, b, order) ==
    IF SQLConverts(w, b)
    THEN Fld(SQL(w, b, order), b, "myOrdQuerySql")
    ELSE Fld(w, b, "mySql")

SQLparams(w, b) == Params(w, b)
SQLparamSets(w, b) == SetParams(w, b)
SQLargs(w, b) == Fld(w, b, "myOrdQueryArgs")

SQLnamedArgs(w, b) ==
    LET m == Params(w, b) IN
    [k \in {x \in DOMAIN m : m[x] # Nil} |-> Deref(m[k])]

\* consts.go: the definitions CloneAsAggregate is called with
TotalRowCount == [rowcount |-> "count(*)"]
NoAggregates == [k \in {} |-> ""]

RECURSIVE AggregateFields(_, _)
AggregateFields(theAggregateDef, order) ==
    IF Len(order) = 0 THEN <<>>
    ELSE <<theAggregateDef[order[1]] \o " AS " \o order[1]>>
             \o AggregateFields(theAggregateDef, Tail(order))

\* CloneAsAggregate: dst is the variable the caller assigns the result to;
\* aSqlAggragates is Nil or Ptr(definition); order is the iteration order
\* of the definition
CloneAsAggregate(w, b, dst, aSqlAggragates, order) ==
    LET theAggregateDef == IF aSqlAggragates = Nil THEN TotalRowCount
                           ELSE Deref(aSqlAggragates)
        theFieldList == AggregateFields(theAggregateDef, order)
        theNewBuilder == [w EXCEPT !.bld[dst] = w.bld[b]]
        w1 == ReplaceSelectFieldsWith(theNewBuilder, dst, Ptr(theFieldList))
    IN IF w1.panic THEN Panic(w) ELSE w1

-----------------------------------------------------------------------------
(* State machine: common parts *)

NoOp == [op |-> "", b |-> "", key |-> "", col |-> "", ret |-> ""]

Op(name, b, key, col, ret) ==
    [op |-> name, b |-> b, key |-> key, col |-> col, ret |-> ret]

\* the state after construction: every builder is NewBuilder(db)
InitWorld(info) ==
    LET w0 == [bld |-> [b \in Builders |-> ZeroBuilder],
               hp |-> [r \in Refs |-> EmptyMap],
               hs |-> [r \in Refs |-> EmptyMap],
               db |-> [info |-> info, inTransaction |-> FALSE],
               calls |-> <<>>,
               panic |-> FALSE]
    IN NewBuilder(NewBuilder(w0, "b1", Ptr("db")), "b2", Ptr("db"))

InitWith(info) ==
    LET w == InitWorld(info) IN
    /\ bld = w.bld
    /\ heapParams = w.hp
    /\ heapSets = w.hs
    /\ dbModel = w.db
    /\ dbCalls = w.calls
    /\ panicked = w.panic
    /\ hist = <<>>
    /\ lastOp = NoOp

\* the effect of a method call that returns world w and is logged as op
Becomes(w, op) ==
    /\ bld' = w.bld
    /\ heapParams' = w.hp
    /\ heapSets' = w.hs
    /\ dbModel' = w.db
    /\ dbCalls' = w.calls
    /\ panicked' = w.panic
    /\ lastOp' = op

-----------------------------------------------------------------------------
(* The inputs the methods are called with *)

Keys == {"a"}
Values == {"1", "0"}
ValueLists == {Nil, Ptr(<<>>), Ptr(<<"1", "2">>)}
Columns == {"c", "d\"e", "f'g"}
Operators == {"=", "!=", " LIKE ", " <> "}
Prefixes == {", "}
DataSources ==
    { [a |-> DsScalar("1")],
      [a |-> DsScalar("")],
      [a |-> DsNull],
      [a |-> DsList(<<"1", "2">>)],
      [a |-> DsList(<<>>)],
      [a |-> DsNilList],
      [b |-> DsScalar("1")] }

\* a method call on b that returns world w (and the value ret)
Call(name, b, key, col, ret, w) ==
    /\ ~panicked
    /\ Becomes(w, Op(name, b, key, col, ret))
    /\ UNCHANGED hist

\* as Call, on a text of at most MaxSqlLen characters
Do(name, b, key, col, ret, w) ==
    /\ Len(bld[b].mySql) <= MaxSqlLen
    /\ Call(name, b, key, col, ret, w)

DoReset(b) == Call("Reset", b, "", "", "", Reset(World, b))

DoStartFilter(b) == Do("StartFilter", b, "", "", "", StartFilter(World, b))

DoStartWhereClause(b) ==
    Do("StartWhereClause", b, "", "", "", StartWhereClause(World, b))

DoEndWhereClause(b) ==
    Do("EndWhereClause", b, "", "", "", EndWhereClause(World, b))

DoSetParamPrefix(b) == \E p \in Prefixes :
    Do("SetParamPrefix", b, "", "", "", SetParamPrefix(World, b, p))

DoSetParamOperator(b) == \E o \in Operators :
    Do("SetParamOperator", b, "", "", o, SetParamOperator(World, b, o))

DoSetDataSource(b) == \E ds \in DataSources :
    Do("SetDataSource", b, "", "", "", SetDataSource(World, b, Ptr(ds)))

DoSetParam(b, K) == \E k \in K, v \in Values :
    Do("SetParam", b, k, "", "", SetParam(World, b, k, v))

DoSetNullableParam(b, K) == \E k \in K :
    Do("SetNullableParam", b, k, "", "", SetNullableParam(World, b, k, Nil))

DoSetParamSet(b, K) == \E k \in K, l \in ValueLists :
    Do("SetParamSet", b, k, "", "", SetParamSet(World, b, k, l))

DoSetParamValueIfNull(b, K) == \E k \in K :
    Do("SetParamValueIfNull", b, k, "", "9", SetParamValueIfNull(World, b, k, "9"))

DoSetParamValueIfEmpty(b, K) == \E k \in K :
    Do("SetParamValueIfEmpty", b, k, "", "9", SetParamValueIfEmpty(World, b, k, "9"))

DoAppendParam(b, K) == \E k \in K, v \in Values :
    Do("AppendParam", b, k, k, v, AppendParam(World, b, k, v))

DoMustAddParam(b, K) == \E k \in K :
    Do("MustAddParam", b, k, k, "", MustAddParam(World, b, k))

DoMustAddParamForColumn(b, K) == \E k \in K, c \in Columns :
    Do("MustAddParamForColumn", b, k, c, "", MustAddParamForColumn(World, b, k, c))

DoAddParamIfDefined(b, K) == \E k \in K :
    Do("AddParamIfDefined", b, k, k, "", AddParamIfDefined(World, b, k))

DoAddParamForColumnIfDefined(b, K) == \E k \in K, c \in Columns :
    Do("AddParamForColumnIfDefined", b, k, c, "",
       AddParamForColumnIfDefined(World, b, k, c))

DoAddSubQueryForColumn(b, sub) == \E c \in Columns :
    Do("AddSubQueryForColumn", b, sub, c, "", AddSubQueryForColumn(World, b, sub, c))

DoApplyFilter(b, filter) ==
    Do("ApplyFilter", b, filter, "", "", ApplyFilter(World, b, filter))

-----------------------------------------------------------------------------
(* Specification of the binding protocol: one builder, every context.  A   *)
(* method is called on a text of at most MaxSqlLen characters, so a        *)
(* rendered clause is not extended further.                                *)

Init == \E info \in {DriverInfo(MySQL, TRUE), DriverInfo(PostgreSQL, FALSE)} :
    InitWith(info)

Next ==
    \/ DoReset("b1")
    \/ DoStartFilter("b1")
    \/ DoStartWhereClause("b1")
    \/ DoEndWhereClause("b1")
    \/ DoSetParamPrefix("b1")
    \/ DoSetParamOperator("b1")
    \/ DoSetDataSource("b1")
    \/ DoSetParam("b1", Keys)
    \/ DoSetNullableParam("b1", Keys)
    \/ DoSetParamSet("b1", Keys)
    \/ DoAppendParam("b1", Keys)
    \/ DoMustAddParam("b1", Keys)
    \/ DoMustAddParamForColumn("b1", Keys)
    \/ DoAddParamIfDefined("b1", Keys)
    \/ DoAddParamForColumnIfDefined("b1", Keys)

Spec == Init /\ [][Next]_vars

WorldNext ==
    [bld |-> bld', hp |-> heapParams', hs |-> heapSets', db |-> dbModel',
     calls |-> dbCalls', panic |-> panicked']

MustOps == {"MustAddParam", "MustAddParamForColumn"}
IfDefinedOps == {"AddParamIfDefined", "AddParamForColumnIfDefined"}

\* op is a call that applied a binding (ran addingParam) from world w
BindingApplied(op, w) ==
    \/ op.op \in MustOps \cup {"AppendParam"}
    \/ op.op \in IfDefinedOps /\ isDataKeyDefined(w, op.b, op.key)

\* after the pull from the data source: key is not set-valued and has no
\* scalar value
IsNullScalar(w, b, key) == ~IsParamASet(w, b, key) /\ GetParam(w, b, key) = Nil

\* what a binding of a null scalar must append in world w
NullClause(w, b, col, key) ==
    LET pfx == w.bld[b].myParamPrefix
        oper == w.bld[b].myParamOperator
    IN IF ~w.bld[b].bUseIsNull
       THEN pfx \o GetQuoted(w, b, col) \o oper \o ":" \o key
       ELSE IF TrimSpace(oper) = "=" THEN pfx \o GetQuoted(w, b, col) \o " IS NULL"
       ELSE pfx \o GetQuoted(w, b, col) \o " IS NOT NULL"

\* C6: a binding applied for a key that is not set-valued and whose scalar
\* value is null appends '<prefix><quoted column> IS NULL' for operator '='
\* and '<prefix><quoted column> IS NOT NULL' for operator '<>' in filter
\* context, and '<prefix><quoted column><operator>:<key>' outside it.
C6_NullBinding ==
    [][ \A b \in Builders :
          ( /\ lastOp'.b = b
            /\ BindingApplied(lastOp', World)
            /\ IsNullScalar(WorldNext, b, lastOp'.key)
            /\ \/ ~bld[b].bUseIsNull
               \/ TrimSpace(bld[b].myParamOperator) \in {"=", OPERATOR_NOT_EQUAL} )
          => bld'[b].mySql =
                bld[b].mySql \o NullClause(World, b, lastOp'.col, lastOp'.key)
      ]_vars

C6_Witness ==
    /\ lastOp.op = "MustAddParamForColumn"
    /\ lastOp.col = "d\"e"
    /\ IsNullScalar(World, "b1", "a")
    /\ bld["b1"].bUseIsNull
    /\ bld["b1"].myParamOperator = "<>"
    /\ dbModel.info.Name = PostgreSQL
    /\ bld["b1"].mySql = " WHERE \"d\"\"e\" IS NOT NULL"

\* ":key_1,:key_2,...,:key_n"
PlaceholderList(key, n) ==
    Join([i \in 1 .. n |-> ":" \o key \o "_" \o Itoa(i)], ",")

\* after the pull from the data source: key is bound to a non-empty list
IsNonEmptySet(w, b, key) ==
    /\ IsParamASet(w, b, key)
    /\ GetParamSet(w, b, key) # Nil
    /\ Len(Deref(GetParamSet(w, b, key))) > 0

\* C7: a binding applied for a key bound to a non-empty value list v1..vn
\* appends '<prefix><quoted column> IN (:key_1,...,:key_n)' for operator
\* '=', ' NOT IN ' for '<>' and the operator unchanged otherwise, and
\* leaves key_i mapped to vi for every i in 1..n.
C7_SetBinding ==
    [][ \A b \in Builders :
          ( /\ lastOp'.b = b
            /\ BindingApplied(lastOp', World)
            /\ IsNonEmptySet(WorldNext, b, lastOp'.key) )
          => LET key == lastOp'.key
                 list == Deref(GetParamSet(WorldNext, b, key))
                 oper == bld[b].myParamOperator
                 listOp == IF TrimSpace(oper) = "=" THEN " IN "
                           ELSE IF TrimSpace(oper) = "<>" THEN " NOT IN "
                           ELSE oper
             IN /\ bld'[b].mySql =
                     bld[b].mySql \o bld[b].myParamPrefix
                        \o GetQuoted(World, b, lastOp'.col) \o listOp
                        \o "(" \o PlaceholderList(key, Len(list)) \o ")"
                /\ \A i \in 1 .. Len(list) :
                     LET ki == key \o "_" \o Itoa(i) IN
                     /\ ki \in DOMAIN Params(WorldNext, b)
                     /\ Params(WorldNext, b)[ki] = Ptr(list[i])
      ]_vars

C7_Witness ==
    /\ lastOp.op = "MustAddParam"
    /\ bld["b1"].myParamOperator = "="
    /\ dbModel.info.Name = PostgreSQL
    /\ bld["b1"].mySql = " \"a\" IN (:a_1,:a_2)"
    /\ Params(World, "b1")["a_1"] = Ptr("1")
    /\ Params(World, "b1")["a_2"] = Ptr("2")

\* key is bound to a list that has no elements
IsEmptyList(w, b, key) ==
    /\ IsParamASet(w, b, key)
    /\ GetParamSet(w, b, key) # Nil
    /\ Len(Deref(GetParamSet(w, b, key))) = 0

\* C16: applying a binding (MustAddParam*, AddParam*IfDefined) for a key
\* whose value is an empty value list is a no-op on the statement: the text
\* is unchanged, in filter context and outside it, for every operator.
C16_EmptySetNoOp ==
    [][ \A b \in Builders :
          ( /\ lastOp'.b = b
            /\ lastOp'.op \in MustOps \cup IfDefinedOps
            /\ IsEmptyList(WorldNext, b, lastOp'.key) )
          => bld'[b].mySql = bld[b].mySql
      ]_vars

LocalBindOps == {"SetParam", "SetNullableParam", "SetParamSet"}

\* C17: the unconditional bind (MustAddParam, MustAddParamForColumn) pulls
\* the key's value from the DataSource only if the key is not already bound
\* locally: a value bound with SetParam/SetNullableParam/SetParamSet before
\* the call is still the key's value in the parameter table after the call,
\* whatever the DataSource holds for that key.
C17_MustBindKeepsLocal ==
    [][ \A b \in Builders :
          ( /\ lastOp.op \in LocalBindOps
            /\ lastOp.b = b
            /\ lastOp'.op \in MustOps
            /\ lastOp'.b = b
            /\ lastOp'.key = lastOp.key )
          => /\ GetParam(WorldNext, b, lastOp.key) = GetParam(World, b, lastOp.key)
             /\ GetParamSet(WorldNext, b, lastOp.key) =
                   GetParamSet(World, b, lastOp.key)
      ]_vars

\* the DataSource of b does not report key as defined, or b has none
DataKeyUndefined(b, key) ==
    \/ bld[b].myDataSource = Nil
    \/ ~IsKeyDefined(Deref(bld[b].myDataSource), key)

\* C18: the conditional bind (AddParamIfDefined, AddParamForColumnIfDefined)
\* proceeds only if the DataSource reports the key as defined; when it
\* reports the key undefined, or no DataSource is set, the call leaves the
\* text, the parameter table and the parameter-set table unchanged, even if
\* the key is already bound locally.
C18_UndefinedKeyOmitted ==
    [][ \A b \in Builders :
          ( /\ lastOp'.op \in IfDefinedOps
            /\ lastOp'.b = b
            /\ DataKeyUndefined(b, lastOp'.key) )
          => /\ bld'[b].mySql = bld[b].mySql
             /\ Params(WorldNext, b) = Params(World, b)
             /\ SetParams(WorldNext, b) = SetParams(World, b)
      ]_vars

C18_Witness ==
    /\ lastOp.op = "AddParamForColumnIfDefined"
    /\ lastOp.key = "a"
    /\ bld["b1"].myDataSource = Ptr([b |-> DsScalar("1")])
    /\ GetParam(World, "b1", "a") = Ptr("1")
    /\ bld["b1"].mySql = ""

\* the DataSource of b reports key as defined with the value NULL
DataValueIsNull(b, key) ==
    /\ bld[b].myDataSource # Nil
    /\ DsEntry(Deref(bld[b].myDataSource), key) = DsNull

\* C19: AddParamIfDefined and AddParamForColumnIfDefined add the parameter
\* to the SQL text only if the key's data value is not NULL; when the
\* DataSource's value for the key is NULL the text is left unchanged.
C19_NullDataOmitted ==
    [][ \A b \in Builders :
          ( /\ lastOp'.op \in IfDefinedOps
            /\ lastOp'.b = b
            /\ DataValueIsNull(b, lastOp'.key) )
          => bld'[b].mySql = bld[b].mySql
      ]_vars

\* the text after extends the text before by a non-empty clause that names
\* the quoted column
AppendsClauseFor(before, after, quoted) ==
    /\ Len(after) > Len(before)
    /\ HasPrefixAt(after, 1, before)
    /\ Contains(SubSeq(after, Len(before) + 1, Len(after)), quoted)

\* C20: MustAddParam, MustAddParamForColumn and AppendParam always put the
\* parameter into the SQL text regardless of the NULL status of its data:
\* every call appends a non-empty clause naming the column, for every
\* current operator and for null mode on or off.
C20_MustBindAlwaysRenders ==
    [][ \A b \in Builders :
          ( /\ lastOp'.op \in MustOps \cup {"AppendParam"}
            /\ lastOp'.b = b )
          => AppendsClauseFor(bld[b].mySql, bld'[b].mySql,
                              GetQuoted(World, b, lastOp'.col))
      ]_vars

\* what StartWhereClause does: null mode on, prefix ' WHERE '
StartsWhere ==
    [][ \A b \in Builders :
          (lastOp'.op = "StartWhereClause" /\ lastOp'.b = b)
          => bld'[b].bUseIsNull /\ bld'[b].myParamPrefix = " WHERE " ]_vars

\* op is a binding call made right after EndWhereClause on the same builder
BindsAfterEndWhere(b) ==
    /\ lastOp.op = "EndWhereClause"
    /\ lastOp.b = b
    /\ lastOp'.op \in MustOps \cup {"AppendParam"}
    /\ lastOp'.b = b
    /\ bld'[b].mySql # bld[b].mySql

\* C21: StartWhereClause sets null mode on and sets the prefix to ' WHERE ';
\* EndWhereClause sets null mode off and clears the ' WHERE ' prefix, so a
\* binding applied after EndWhereClause is not prefixed with ' WHERE '.
C21_EndWhereClearsPrefix ==
    /\ StartsWhere
    /\ [][ \A b \in Builders :
             /\ (lastOp'.op = "EndWhereClause" /\ lastOp'.b = b)
                => /\ ~bld'[b].bUseIsNull
                   /\ bld'[b].myParamPrefix # " WHERE "
             /\ BindsAfterEndWhere(b)
                => ~HasPrefixAt(bld'[b].mySql, Len(bld[b].mySql) + 1, " WHERE ")
         ]_vars

\* C21 (amended): StartWhereClause sets null mode on and sets the prefix to
\* ' WHERE '; EndWhereClause sets null mode off and leaves the prefix as it
\* is, so a binding applied right after EndWhereClause is prefixed with the
\* prefix that was current before EndWhereClause.
C21_EndWhereKeepsPrefix ==
    /\ StartsWhere
    /\ [][ \A b \in Builders :
             /\ (lastOp'.op = "EndWhereClause" /\ lastOp'.b = b)
                => /\ ~bld'[b].bUseIsNull
                   /\ bld'[b].myParamPrefix = bld[b].myParamPrefix
             /\ BindsAfterEndWhere(b)
                => HasPrefixAt(bld'[b].mySql, Len(bld[b].mySql) + 1,
                               bld[b].myParamPrefix)
         ]_vars

C21_Witness ==
    /\ lastOp.op = "AppendParam"
    /\ ~bld["b1"].bUseIsNull
    /\ bld["b1"].myParamPrefix = " WHERE "
    /\ dbModel.info.Name = PostgreSQL
    /\ bld["b1"].mySql = " WHERE \"a\"=:a"

\* C23: after Reset, whatever operations preceded it, the text is empty,
\* the parameter table and parameter-set table are empty, the prefix is
\* ' ', the operator is '=', null mode is off, and the bound model
\* (dialect) is the same one as before the call.
C23_ResetIsPristine ==
    [][ \A b \in Builders :
          (lastOp'.op = "Reset" /\ lastOp'.b = b)
          => /\ bld'[b].mySql = ""
             /\ DOMAIN Params(WorldNext, b) = {}
             /\ DOMAIN SetParams(WorldNext, b) = {}
             /\ bld'[b].myParamPrefix = " "
             /\ bld'[b].myParamOperator = "="
             /\ ~bld'[b].bUseIsNull
             /\ bld'[b].myDbModel = bld[b].myDbModel
             /\ dbModel'.info = dbModel.info
      ]_vars

C23_Witness ==
    /\ lastOp.op = "Reset"
    /\ bld["b1"].myDataSource = Ptr([a |-> DsList(<<"1", "2">>)])
    /\ bld["b1"].mySql = ""
    /\ DOMAIN Params(World, "b1") = {}
    /\ dbModel.info.Name = MySQL

AfterNotEqual(b) ==
    /\ lastOp.op = "SetParamOperator"
    /\ lastOp.b = b
    /\ lastOp.ret = "!="
    /\ lastOp'.b = b
    /\ BindingApplied(lastOp', World)

\* C32: SetParamOperator stores the operator with every '!=' replaced by
\* '<>', so after SetParamOperator('!=') a binding behaves as after
\* SetParamOperator('<>'): a non-empty value set renders ' NOT IN (...)' and
\* a null value in filter context renders ' IS NOT NULL'.
C32_NotEqualIsRemapped ==
    [][ \A b \in Builders :
          /\ (lastOp'.op = "SetParamOperator" /\ lastOp'.b = b)
             => /\ ~Contains(bld'[b].myParamOperator, "!=")
                /\ lastOp'.ret = "!=" => bld'[b].myParamOperator = "<>"
                /\ ~Contains(lastOp'.ret, "!=")
                   => bld'[b].myParamOperator = lastOp'.ret
          /\ (AfterNotEqual(b) /\ IsNonEmptySet(WorldNext, b, lastOp'.key))
             => bld'[b].mySql =
                   bld[b].mySql \o bld[b].myParamPrefix
                       \o GetQuoted(World, b, lastOp'.col) \o " NOT IN ("
                       \o PlaceholderList(lastOp'.key,
                              Len(Deref(GetParamSet(WorldNext, b, lastOp'.key))))
                       \o ")"
          /\ ( /\ AfterNotEqual(b)
               /\ IsNullScalar(WorldNext, b, lastOp'.key)
               /\ bld[b].bUseIsNull )
             => bld'[b].mySql =
                   bld[b].mySql \o bld[b].myParamPrefix
                       \o GetQuoted(World, b, lastOp'.col) \o " IS NOT NULL"
      ]_vars

C32_Witness ==
    /\ lastOp.op = "MustAddParam"
    /\ lastOp.b = "b1"
    /\ bld["b1"].myParamOperator = "<>"
    /\ IsNonEmptySet(World, "b1", "a")
    /\ dbModel.info.Name = PostgreSQL
    /\ bld["b1"].mySql = " \"a\" NOT IN (:a_1,:a_2)"

\* the keys whose placeholder a binding of key may write
PlaceholderKeys(key) == {key} \cup {key \o "_" \o Itoa(i) : i \in 1 .. 2}

\* C36: every named placeholder ':k' that a binding operation writes into
\* the text has k present as a key of the parameter table when the
\* operation returns, with or without a DataSource set on the builder.
C36_PlaceholdersAreBound ==
    [][ \A b \in Builders :
          ( /\ lastOp'.op \in MustOps \cup IfDefinedOps \cup {"AppendParam"}
            /\ lastOp'.b = b )
          => \A k \in PlaceholderKeys(lastOp'.key) :
                Contains(SubSeq(bld'[b].mySql, Len(bld[b].mySql) + 1,
                                Len(bld'[b].mySql)), ":" \o k)
                => k \in DOMAIN Params(WorldNext, b)
      ]_vars

\* C38: AppendParam(key, value) always renders the literal it was given:
\* after the call the parameter table maps key to value and the text ends
\* with '<prefix><quoted key><operator>:key', for every prior state of the
\* builder, including one where key was earlier bound as a non-empty value
\* set.
C38_AppendParamRendersLiteral ==
    [][ \A b \in Builders :
          (lastOp'.op = "AppendParam" /\ lastOp'.b = b)
          => /\ lastOp'.key \in DOMAIN Params(WorldNext, b)
             /\ Params(WorldNext, b)[lastOp'.key] = Ptr(lastOp'.ret)
             /\ bld'[b].mySql =
                   bld[b].mySql \o bld[b].myParamPrefix
                       \o GetQuoted(World, b, lastOp'.key)
                       \o bld[b].myParamOperator \o ":" \o lastOp'.key
      ]_vars

-----------------------------------------------------------------------------
(* Specification of the parameter tables: two builders, b2 a sub-query or  *)
(* filter that is merged into b1                                           *)

InitParams == InitWith(DriverInfo(PostgreSQL, TRUE))

NextParams ==
    \/ DoReset("b1")
    \/ DoSetDataSource("b1")
    \/ DoSetParam("b1", Keys)
    \/ DoSetNullableParam("b1", Keys)
    \/ DoSetParamSet("b1", Keys)
    \/ DoSetParamValueIfNull("b1", Keys)
    \/ DoSetParamValueIfEmpty("b1", Keys)
    \/ DoAppendParam("b1", Keys)
    \/ DoMustAddParam("b1", Keys)
    \/ DoMustAddParamForColumn("b1", Keys)
    \/ DoAddParamIfDefined("b1", Keys)
    \/ DoAddParamForColumnIfDefined("b1", Keys)
    \/ DoAddSubQueryForColumn("b1", "b2")
    \/ DoApplyFilter("b1", "b2")
    \/ DoSetParam("b2", Keys)
    \/ DoSetNullableParam("b2", Keys)
    \/ DoSetParamSet("b2", Keys)
    \/ DoMustAddParam("b2", Keys)

SpecParams == InitParams /\ [][NextParams]_vars

\* C5: every key present in the parameter-set table is also present in the
\* parameter table and is mapped there to the null marker, never to a
\* scalar value.
C5_SetKeysAreNull ==
    \A b \in Builders : \A k \in DOMAIN SetParams(World, b) :
        /\ k \in DOMAIN Params(World, b)
        /\ Params(World, b)[k] = Nil

\* C5 (amended): every key present in the parameter-set table is also
\* present in the parameter table; SetParamSet maps it there to the null
\* marker, and a later scalar binding of the same key may replace the marker.
C5_SetKeysAreParamKeys ==
    /\ [](\A b \in Builders :
            DOMAIN SetParams(World, b) \subseteq DOMAIN Params(World, b))
    /\ [][ lastOp'.op = "SetParamSet" =>
             /\ lastOp'.key \in DOMAIN SetParams(WorldNext, lastOp'.b)
             /\ Params(WorldNext, lastOp'.b)[lastOp'.key] = Nil ]_vars

C5_Witness ==
    /\ "a" \in DOMAIN SetParams(World, "b1")
    /\ Params(World, "b1")["a"] = Ptr("9")
    /\ lastOp.op = "SetParamValueIfNull"

\* table `after` is table `before` overwritten by table `from`
Overwritten(before, from, after) ==
    /\ DOMAIN after = DOMAIN before \cup DOMAIN from
    /\ \A k \in DOMAIN from : after[k] = from[k]
    /\ \A k \in DOMAIN before \ DOMAIN from : after[k] = before[k]

\* C14: ApplyFilter(filter) merges key-overwriting: after the call, for
\* every key of the filter's parameter table the caller's parameter table
\* maps it to the filter's value, every caller key not in the filter keeps
\* its value, the same holds for the parameter-set tables, and no error is
\* raised on collision.
C14_ApplyFilterOverwrites ==
    [][ \A b \in Builders :
          ( /\ lastOp'.op = "ApplyFilter"
            /\ lastOp'.b = b )
          => LET filter == lastOp'.key IN
             /\ Overwritten(Params(World, b), Params(World, filter),
                            Params(WorldNext, b))
             /\ Overwritten(SetParams(World, b), SetParams(World, filter),
                            SetParams(WorldNext, b))
             /\ ~panicked'
      ]_vars

C14_Witness ==
    /\ lastOp.op = "ApplyFilter"
    /\ "a" \in DOMAIN SetParams(World, "b1")
    /\ "a" \notin DOMAIN SetParams(World, "b2")
    /\ "a" \in DOMAIN Params(World, "b2")
    /\ Params(World, "b1")["a"] = Ptr("0")
    /\ Params(World, "b2")["a"] = Ptr("0")

\* the keys both tables have
Colliding(m1, m2) == DOMAIN m1 \cap DOMAIN m2

\* C15: AddSubQueryForColumn merges destination-wins: for a key present in
\* both builders, the caller's value for that key after the merge is the
\* value the caller had before the merge.
C15_SubQueryDestinationWins ==
    [][ \A b \in Builders :
          ( /\ lastOp'.op = "AddSubQueryForColumn"
            /\ lastOp'.b = b )
          => LET sub == lastOp'.key IN
             /\ \A k \in Colliding(Params(World, b), Params(World, sub)) :
                   Params(WorldNext, b)[k] = Params(World, b)[k]
             /\ \A k \in Colliding(SetParams(World, b), SetParams(World, sub)) :
                   SetParams(WorldNext, b)[k] = SetParams(World, b)[k]
      ]_vars

\* C15 (amended): AddSubQueryForColumn merges key-overwriting, as
\* ApplyFilter does: for a key present in both builders, the caller's value
\* for that key after the merge is the sub-query's value; a key only the
\* caller has keeps its value.
C15_SubQuerySourceWins ==
    [][ \A b \in Builders :
          ( /\ lastOp'.op = "AddSubQueryForColumn"
            /\ lastOp'.b = b )
          => LET sub == lastOp'.key IN
             /\ Overwritten(Params(World, b), Params(World, sub),
                            Params(WorldNext, b))
             /\ Overwritten(SetParams(World, b), SetParams(World, sub),
                            SetParams(WorldNext, b))
      ]_vars

C15_Witness ==
    /\ lastOp.op = "AddSubQueryForColumn"
    /\ "a" \in DOMAIN SetParams(World, "b1")
    /\ "a" \notin DOMAIN SetParams(World, "b2")
    /\ "a" \in DOMAIN Params(World, "b2")
    /\ Params(World, "b1")["a"] = Ptr("1")
    /\ Params(World, "b2")["a"] = Ptr("1")

DefaultOps == {"SetParamValueIfNull", "SetParamValueIfEmpty"}

\* in world w the key has no value for the operation op: it is set-valued
\* with a nil or empty list, or it is not set-valued and its scalar value is
\* null (for SetParamValueIfEmpty: null, '' or '0')
ValueIsAbsent(op, w, b, key) ==
    IF key \in DOMAIN SetParams(w, b)
    THEN SetParams(w, b)[key] = Nil \/ Len(Deref(SetParams(w, b)[key])) = 0
    ELSE \/ key \notin DOMAIN Params(w, b)
         \/ Params(w, b)[key] = Nil
         \/ op = "SetParamValueIfEmpty" /\ Deref(Params(w, b)[key]) \in {"", "0"}

\* C34: SetParamValueIfNull(key, v) and SetParamValueIfEmpty(key, v) first
\* pull the key from the DataSource; afterwards the key's scalar value is v
\* if the key was set-valued with a nil or empty list, or was a non-set key
\* with a null value (IfEmpty: null, '' or '0'); in every other case the
\* key's scalar value and value list are what the pull produced.
C34_DefaultOnlyWhenAbsent ==
    [][ \A b \in Builders :
          (lastOp'.op \in DefaultOps /\ lastOp'.b = b)
          => LET pulled == getParamValueFromDataSource(World, b, lastOp'.key) IN
             /\ SetParams(WorldNext, b) = SetParams(pulled, b)
             /\ IF ValueIsAbsent(lastOp'.op, pulled, b, lastOp'.key)
                THEN Params(WorldNext, b) =
                        MapPut(Params(pulled, b), lastOp'.key, Ptr(lastOp'.ret))
                ELSE Params(WorldNext, b) = Params(pulled, b)
      ]_vars

C34_Witness ==
    /\ lastOp.op = "SetParamValueIfEmpty"
    /\ lastOp.b = "b1"
    /\ bld["b1"].myDataSource = Ptr([a |-> DsScalar("")])
    /\ "a" \in DOMAIN Params(World, "b1")
    /\ Params(World, "b1")["a"] = Ptr("9")

-----------------------------------------------------------------------------
(* Specification of GetUniqueParamKey: keys x, x2, x3, ... get bound and a *)
(* unique key is asked for                                                 *)

NumberedKeys == {"x"} \cup {"x" \o Itoa(i) : i \in 2 .. MaxSuffix}
BaseKeys == {"x", "x2", "y"}

DoGetUniqueParamKey(b) == \E k \in BaseKeys :
    Call("GetUniqueParamKey", b, k, "", GetUniqueParamKey(World, b, k), World)

InitKeys == InitWith(DriverInfo(PostgreSQL, TRUE))

NextKeys ==
    \/ DoSetParam("b1", NumberedKeys)
    \/ DoSetNullableParam("b1", NumberedKeys)
    \/ DoGetUniqueParamKey("b1")
    \/ DoReset("b1")

SpecKeys == InitKeys /\ [][NextKeys]_vars

\* C8: GetUniqueParamKey(base) returns base when base is not a key of the
\* parameter table, otherwise base+k for the smallest k >= 2 such that
\* base+k is not a key; the returned key is never a key of the table, and
\* the call changes neither the parameter table nor the text.
C8_UniqueParamKey ==
    [][ lastOp'.op = "GetUniqueParamKey" =>
          LET b == lastOp'.b
              base == lastOp'.key
              ret == lastOp'.ret
              keys == DOMAIN Params(World, b)
          IN /\ ret \notin keys
             /\ base \notin keys => ret = base
             /\ base \in keys =>
                  \E k \in 2 .. (Cardinality(keys) + 1) :
                      /\ ret = base \o Itoa(k)
                      /\ \A j \in 2 .. (k - 1) : (base \o Itoa(j)) \in keys
             /\ bld' = bld
             /\ heapParams' = heapParams
             /\ heapSets' = heapSets
      ]_vars

C8_Witness ==
    /\ lastOp.op = "GetUniqueParamKey"
    /\ lastOp.key = "x"
    /\ lastOp.ret = "x3"
    /\ DOMAIN Params(World, "b1") = {"x", "x2"}

-----------------------------------------------------------------------------
(* Specification of the SELECT field replacement and of cloning *)

SelectTexts ==
    { "SELECT f FROM t",
      "SELECT f FROM t WHERE x IN (SELECT m FROM u)",
      "SELECT /* FIELDLIST */ f, (SELECT m FROM u) AS g /* /FIELDLIST */ FROM t" }

FieldLists == {Nil, Ptr(<<>>), Ptr(<<"a", "b">>)}

Aggregates == {Nil, Ptr(TotalRowCount), Ptr(NoAggregates)}

DoStartWith(b, texts) == \E t \in texts :
    Call("StartWith", b, "", "", t, StartWith(World, b, t))

DoReplaceSelectFieldsWith(b) == \E f \in FieldLists :
    Call("ReplaceSelectFieldsWith", b, "", "", f,
         ReplaceSelectFieldsWith(World, b, f))

\* dst = b.CloneAsAggregate(agg)
DoCloneAsAggregate(b, dst) == \E agg \in Aggregates :
    LET def == IF agg = Nil THEN TotalRowCount ELSE Deref(agg) IN
    \E order \in KeyOrders(def) :
        Call("CloneAsAggregate", b, "", "", dst,
             CloneAsAggregate(World, b, dst, agg, order))

DoSetParamOn(b, K) == \E k \in K, v \in Values :
    Call("SetParam", b, k, "", "", SetParam(World, b, k, v))

DoSetParamSetOn(b, K) == \E k \in K, l \in ValueLists :
    Call("SetParamSet", b, k, "", "", SetParamSet(World, b, k, l))

InitSelect == InitWith(DriverInfo(PostgreSQL, TRUE))

NextSelect ==
    \/ DoStartWith("b1", SelectTexts)
    \/ DoReplaceSelectFieldsWith("b1")
    \/ DoCloneAsAggregate("b1", "b2")
    \/ \E b \in Builders : DoSetParamOn(b, Keys)
    \/ \E b \in Builders : DoSetParamSetOn(b, Keys)
    \/ \E b \in Builders : DoReset(b)

SpecSelect == InitSelect /\ [][NextSelect]_vars

\* C4: CloneAsAggregate copies the parameter table and the parameter-set
\* table by value: binding a parameter on the clone does not change the
\* original's tables, and binding on the original does not change the
\* clone's.
C4_CloneIndependence ==
    [][ \A b \in Builders :
          (lastOp'.op \in {"SetParam", "SetParamSet"} /\ lastOp'.b = b) =>
              \A o \in Builders \ {b} :
                  /\ Params(WorldNext, o) = Params(World, o)
                  /\ SetParams(WorldNext, o) = SetParams(World, o)
      ]_vars

\* a text whose field list is bracketed by the hint markers
HintedText(fields, rest) ==
    "SELECT " \o FIELD_LIST_HINT_START \o " " \o fields \o " "
        \o FIELD_LIST_HINT_END \o " FROM" \o rest

\* C9: on a text whose field list, with a nested SELECT ... FROM, is
\* bracketed by the hint markers, ReplaceSelectFieldsWith([a, b]) keeps the
\* outer SELECT and FROM, leaves exactly 'a, b' between them and leaves
\* everything from the outer FROM onward untouched.
C9_HintedReplace ==
    [][ ( /\ lastOp'.op = "ReplaceSelectFieldsWith"
          /\ lastOp'.ret = Ptr(<<"a", "b">>)
          /\ bld[lastOp'.b].mySql = HintedText("f, (SELECT m FROM u) AS g", " t") )
        => /\ ~panicked'
           /\ bld'[lastOp'.b].mySql = "SELECT a, b FROM t"
      ]_vars


\* the text after the first ' FROM' of a text that has one
AfterFirstFrom(text) == SubSeq(text, Index(text, " FROM") + 6, Len(text))

HasSuffix(s, suffix) ==
    /\ Len(s) >= Len(suffix)
    /\ SubSeq(s, Len(s) - Len(suffix) + 1, Len(s)) = suffix

\* C35: without hint markers in the text, ReplaceSelectFieldsWith with a
\* non-empty field list replaces only the span from the first 'SELECT' to
\* the first following 'FROM': a later 'SELECT ... FROM' and all text after
\* the first FROM are left unchanged.
C35_PlainReplace ==
    [][ \A b \in Builders :
          ( /\ lastOp'.op = "ReplaceSelectFieldsWith"
            /\ lastOp'.b = b
            /\ lastOp'.ret = Ptr(<<"a", "b">>)
            /\ ~Contains(bld[b].mySql, FIELD_LIST_HINT_START)
            /\ Contains(bld[b].mySql, " FROM") )
          => /\ ~panicked'
             /\ HasSuffix(bld'[b].mySql, AfterFirstFrom(bld[b].mySql))
      ]_vars
-----------------------------------------------------------------------------
(* Specification of the positional rendering *)

SqlKeys == {"a", "a2", "b"}

SqlTexts == {"x=:a AND y=:b", "x=:a2 AND y=:a", "x=:a OR z=:a"}

DoSetNullableParamOn(b, K) == \E k \in K :
    Call("SetNullableParam", b, k, "", "", SetNullableParam(World, b, k, Nil))

\* SQL(), for every order in which the range loop may visit myParams
DoSQL(b) ==
    /\ Len(bld[b].myOrdQueryArgs) <= MaxArgs
    /\ \E order \in KeyOrders(Params(World, b)) :
          Call("SQL", b, "", "", SQLResult(World, b, order), SQL(World, b, order))

InitSQL == \E info \in {DriverInfo(PostgreSQL, FALSE), DriverInfo(MySQL, TRUE)} :
    InitWith(info)

NextSQL ==
    \/ DoStartWith("b1", SqlTexts)
    \/ DoSetParamOn("b1", SqlKeys)
    \/ DoSetNullableParamOn("b1", SqlKeys)
    \/ DoSQL("b1")
    \/ DoReset("b1")

SpecSQL == InitSQL /\ [][NextSQL]_vars

\* s with the n characters at position i replaced by new
Splice(str, i, n, new) ==
    SubSeq(str, 1, i - 1) \o new \o SubSeq(str, i + n, Len(str))

\* C10: for a dialect without named parameters and a text in which ':a'
\* occurs before ':b', both keys bound to non-null values, SQL() returns
\* the text with '$1' where ':a' was and '$2' where ':b' was, and SQLargs()
\* equals [value of a, value of b], for every iteration order of the
\* parameter table.
C10_PositionalOrder ==
    [][ \A b \in Builders :
          LET text == bld[b].mySql
              params == Params(World, b)
              i == IndexFrom(text, ":a", 1)
              j == IndexFrom(text, ":b", 1)
          IN ( /\ lastOp'.op = "SQL"
               /\ lastOp'.b = b
               /\ ~dbModel.info.SupportsNamedParams
               /\ DOMAIN params = {"a", "b"}
               /\ params["a"] # Nil
               /\ params["b"] # Nil
               /\ bld[b].myOrdQueryArgs = <<>>
               /\ 0 < i /\ i < j )
             => /\ lastOp'.ret = Splice(Splice(text, j, 2, "$2"), i, 2, "$1")
                /\ bld'[b].myOrdQueryArgs =
                      <<Deref(params["a"]), Deref(params["b"])>>
      ]_vars

\* C25: SQL() returns the accumulated text verbatim when the bound dialect
\* supports named parameters, and GetSQLStatement() returns the accumulated
\* text without positional conversion for every dialect; calling SQL() any
\* number of times changes neither the accumulated text nor the parameter
\* table, so GetSQLStatement() returns the same string before and after.
C25_SQLLeavesTextAndParams ==
    [][ \A b \in Builders :
          (lastOp'.op = "SQL" /\ lastOp'.b = b)
          => /\ dbModel.info.SupportsNamedParams => lastOp'.ret = bld[b].mySql
             /\ GetSQLStatement(WorldNext, b) = bld[b].mySql
             /\ GetSQLStatement(World, b) = bld[b].mySql
             /\ Params(WorldNext, b) = Params(World, b)
             /\ SetParams(WorldNext, b) = SetParams(World, b)
      ]_vars

C25_Witness ==
    /\ lastOp.op = "SQL"
    /\ ~dbModel.info.SupportsNamedParams
    /\ lastOp.ret = "x=$1 AND y=:b"
    /\ GetSQLStatement(World, "b1") = "x=:a AND y=:b"
    /\ Len(SQLargs(World, "b1")) = 2

\* the number of non-overlapping occurrences of sub in s from position i
RECURSIVE CountFrom(_, _, _)
CountFrom(s, sub, i) ==
    LET p == IndexFrom(s, sub, i) IN
    IF p = 0 THEN 0 ELSE 1 + CountFrom(s, sub, p + Len(sub))

\* text with '$n' put back to ':<keyOf[n]>' for n = 1..cnt
RECURSIVE PutBack(_, _, _)
PutBack(text, keyOf, cnt) ==
    IF cnt = 0 THEN text
    ELSE PutBack(Replace(text, "$" \o Itoa(cnt), ":" \o keyOf[cnt], 1),
                 keyOf, cnt - 1)

\* args is the argument list of the positional text ret made from text:
\* one element per '$n', element n the value of the key that became '$n'
ArgsMatch(text, params, ret, args) ==
    LET cnt == CountFrom(ret, "$", 1)
        bound == {k \in DOMAIN params : params[k] # Nil}
    IN /\ Len(args) = cnt
       /\ \E keyOf \in [1 .. cnt -> bound] :
             /\ PutBack(ret, keyOf, cnt) = text
             /\ \A n \in 1 .. cnt : args[n] = Deref(params[keyOf[n]])

\* C11: in positional mode, after any number of SQL() calls on a builder,
\* SQLargs() has exactly as many elements as there are '$n' placeholders in
\* the text returned by the most recent SQL() call, and element n-1 is the
\* value of the key whose placeholder became '$n'.
C11_ArgsMatchPlaceholders ==
    [][ \A b \in Builders :
          ( /\ lastOp'.op = "SQL"
            /\ lastOp'.b = b
            /\ SQLConverts(World, b) )
          => ArgsMatch(bld[b].mySql, Params(World, b), lastOp'.ret,
                       SQLargs(WorldNext, b))
      ]_vars

\* every key that has a placeholder in the text of b is bound to a non-null
\* value
PlaceholdersBound(w, b) ==
    \A k \in SqlKeys :
        Contains(Fld(w, b, "mySql"), ":" \o k)
        => k \in DOMAIN Params(w, b) /\ Params(w, b)[k] # Nil

\* C39: in the positional conversion done by SQL(), each placeholder is
\* replaced as a whole token: when one bound key is a prefix of another
\* bound key, or the same key's placeholder occurs more than once, every
\* ':key' occurrence of a non-null key is replaced by a '$n' and no named
\* placeholder of a non-null key remains in the result.
C39_WholeTokenReplacement ==
    [][ \A b \in Builders :
          ( /\ lastOp'.op = "SQL"
            /\ lastOp'.b = b
            /\ SQLConverts(World, b)
            /\ PlaceholdersBound(World, b) )
          => ~Contains(lastOp'.ret, ":")
      ]_vars

-----------------------------------------------------------------------------
(* Specification of the limit clause: every dialect, one clause per text *)

LimitTexts == {"", "SELECT 1", "SELECT f FROM t"}
Limits == {-1, 0, 1, 2}
Offsets == {-1, 0, 1, 2}

DoAddQueryLimit(b) == \E l \in Limits, o \in Offsets :
    /\ ~Contains(bld[b].mySql, "LIMIT")
    /\ Call("AddQueryLimit", b, "", "", <<l, o>>, AddQueryLimit(World, b, l, o))

InitLimit == \E info \in DriverInfos : InitWith(info)

NextLimit ==
    \/ DoStartWith("b1", LimitTexts)
    \/ DoAddQueryLimit("b1")
    \/ DoReset("b1")

SpecLimit == InitLimit /\ [][NextLimit]_vars

\* the clause of the default path
LimitClause(l, o) ==
    " LIMIT " \o Itoa(l) \o (IF o > 0 THEN " OFFSET " \o Itoa(o) ELSE "")

\* C12: for the MySQL and PostgreSQL dialects AddQueryLimit(limit, offset)
\* with limit > 0 appends ' LIMIT <limit>' to the text, followed by
\* ' OFFSET <offset>' when offset > 0, as for any dialect that is not
\* special-cased.
C12_LimitDefaultPath ==
    [][ \A b \in Builders :
          ( /\ lastOp'.op = "AddQueryLimit"
            /\ lastOp'.b = b
            /\ lastOp'.ret[1] > 0
            /\ dbModel.info.Name \in {MySQL, PostgreSQL} )
          => bld'[b].mySql =
                bld[b].mySql \o LimitClause(lastOp'.ret[1], lastOp'.ret[2])
      ]_vars

\* what the call appended: the text after the prefix old of new
Appended(old, new) == SubSeq(new, Len(old) + 1, Len(new))

\* C13: AddQueryLimit(limit, offset) with limit <= 0 leaves the text
\* unchanged for every dialect and every offset; with limit > 0 and
\* offset <= 0 the appended clause contains no OFFSET term.
C13_LimitSuppressed ==
    [][ \A b \in Builders :
          ( /\ lastOp'.op = "AddQueryLimit"
            /\ lastOp'.b = b )
          => /\ lastOp'.ret[1] <= 0 => bld'[b].mySql = bld[b].mySql
             /\ (lastOp'.ret[1] > 0 /\ lastOp'.ret[2] <= 0) =>
                   /\ HasPrefixAt(bld'[b].mySql, 1, bld[b].mySql)
                   /\ ~Contains(Appended(bld[b].mySql, bld'[b].mySql), "OFFSET")
      ]_vars

C13_Witness ==
    /\ lastOp.op = "AddQueryLimit"
    /\ lastOp.ret = <<2, 0>>
    /\ dbModel.info.Name = SQLite
    /\ bld["b1"].mySql = "SELECT 1 LIMIT 2"

-----------------------------------------------------------------------------
(* Specification of construction: builders are made by NewBuilder and     *)
(* re-initialised by WithModel, with or without a model                   *)

Modelers == {Nil, Ptr("db")}

Constructed(b) == bld[b].myDbModel # Nil

DoNewBuilder(b) == \E aDbModeler \in Modelers :
    Call("NewBuilder", b, "", "", aDbModeler, NewBuilder(World, b, aDbModeler))

DoWithModel(b) == \E aDbModeler \in Modelers :
    /\ Constructed(b)
    /\ Call("WithModel", b, "", "", aDbModeler, WithModel(World, b, aDbModeler))

\* no builder exists yet
InitNew ==
    /\ bld = [b \in Builders |-> ZeroBuilder]
    /\ heapParams = [r \in Refs |-> EmptyMap]
    /\ heapSets = [r \in Refs |-> EmptyMap]
    /\ dbModel = [info |-> DriverInfo(PostgreSQL, TRUE), inTransaction |-> FALSE]
    /\ dbCalls = <<>>
    /\ panicked = FALSE
    /\ hist = <<>>
    /\ lastOp = NoOp

NextNew ==
    \/ \E b \in Builders : DoNewBuilder(b)
    \/ \E b \in Builders : DoWithModel(b)
    \/ \E b \in Builders : Constructed(b) /\ DoStartWith(b, LimitTexts)
    \/ \E b \in Builders : Constructed(b) /\ DoSetParamOn(b, Keys)
    \/ \E b \in Builders : Constructed(b) /\ DoStartWhereClause(b)

SpecNew == InitNew /\ [][NextNew]_vars

\* C22: constructing a builder without a model (NewBuilder(nil) or
\* WithModel(nil)) fails immediately with a panic: no builder is returned
\* and no builder state (text, parameter tables, flags) is initialised.
C22_NilModelPanics ==
    [][ \A b \in Builders :
          ( /\ lastOp'.op \in {"NewBuilder", "WithModel"}
            /\ lastOp'.b = b
            /\ lastOp'.ret = Nil )
          => /\ panicked'
             /\ bld' = bld
             /\ heapParams' = heapParams
             /\ heapSets' = heapSets
      ]_vars

C22_Witness ==
    /\ panicked
    /\ lastOp.op = "WithModel"
    /\ lastOp.ret = Nil
    /\ bld["b1"].mySql = "SELECT 1"
    /\ bld["b1"].bUseIsNull
    /\ "a" \in DOMAIN Params(World, "b1")
    /\ ~Constructed("b2")

-----------------------------------------------------------------------------
(* Specification of rendering after binding: a positional dialect, one    *)
(* builder that binds and then asks for its SQL                           *)

\* a key, and the name of the first key a value list bound to it gets
RenderKeys == {"a", "a_1"}

InitRender == InitWith(DriverInfo(PostgreSQL, FALSE))

NextRender ==
    \/ DoStartWhereClause("b1")
    \/ DoSetParam("b1", RenderKeys)
    \/ DoSetNullableParam("b1", Keys)
    \/ DoSetParamSet("b1", Keys)
    \/ DoMustAddParam("b1", Keys)
    \/ DoSQL("b1")
    \/ DoReset("b1")

SpecRender == InitRender /\ [][NextRender]_vars

\* the keys of the parameter table of b whose value is null
NullKeys(w, b) == {k \in DOMAIN Params(w, b) : Params(w, b)[k] = Nil}

\* C24: for every key of the parameter table whose value is null, the
\* named placeholder ':key' was never written to the text by a binding
\* operation; hence the positional text returned by SQL() contains no
\* leftover named placeholder of a null-valued key.
C24_NullKeysNotWritten ==
    [][ \A b \in Builders :
          /\ ( /\ lastOp'.op \in MustOps \cup IfDefinedOps
               /\ lastOp'.b = b
               /\ lastOp'.key \in NullKeys(WorldNext, b) )
             => ~Contains(Appended(bld[b].mySql, bld'[b].mySql),
                          ":" \o lastOp'.key)
          /\ ( /\ lastOp'.op = "SQL"
               /\ lastOp'.b = b
               /\ SQLConverts(World, b) )
             => \A k \in NullKeys(World, b) : ~Contains(lastOp'.ret, ":" \o k)
      ]_vars


\* C37: rendering a value-set binding for key k changes the parameter table
\* only by adding the fresh keys k_1..k_n: every key bound before the call,
\* including a key that happens to be named k_i, keeps the value it had.
C37_SetBindingKeepsBoundKeys ==
    [][ \A b \in Builders :
          ( /\ lastOp'.op \in MustOps
            /\ lastOp'.b = b
            /\ IsNonEmptySet(World, b, lastOp'.key) )
          => \A k \in DOMAIN Params(World, b) :
                /\ k \in DOMAIN Params(WorldNext, b)
                /\ Params(WorldNext, b)[k] = Params(World, b)[k]
      ]_vars
-----------------------------------------------------------------------------
(* Specification of composition: b1 is a statement that text, field lists, *)
(* ORDER BY and LIMIT clauses, bindings, a sub-query and a filter are      *)
(* appended to; b2 is the filter or sub-query                              *)

AddTexts == {"x", ","}

OrderByLists == {Nil, Ptr([f |-> "desc"]), Ptr([f |-> "up", g |-> " DESC "])}

DoAdd(b) == \E aStr \in AddTexts :
    Do("Add", b, "", "", "", Add(World, b, aStr))

DoAddFieldList(b) == \E f \in FieldLists :
    Do("AddFieldList", b, "", "", "", AddFieldList(World, b, f))

DoApplyOrderByList(b) == \E l \in OrderByLists :
    \E order \in KeyOrders(IF l = Nil THEN EmptyMap ELSE Deref(l)) :
        Do("ApplyOrderByList", b, "", "", l, ApplyOrderByList(World, b, l, order))

\* the dialect that is not special-cased, so that every operation appends
InitAppend == InitWith(DriverInfo(SQLite, TRUE))

NextAppend ==
    \/ DoAdd("b1")
    \/ DoAddFieldList("b1")
    \/ DoApplyOrderByList("b1")
    \/ Len(bld["b1"].mySql) <= MaxSqlLen /\ DoAddQueryLimit("b1")
    \/ DoSetParamOperator("b1")
    \/ DoSetParamSet("b1", Keys)
    \/ DoSetDataSource("b1")
    \/ DoAppendParam("b1", Keys)
    \/ DoMustAddParam("b1", Keys)
    \/ DoMustAddParamForColumn("b1", Keys)
    \/ DoAddParamIfDefined("b1", Keys)
    \/ DoAddParamForColumnIfDefined("b1", Keys)
    \/ DoAddSubQueryForColumn("b1", "b2")
    \/ DoApplyFilter("b1", "b2")
    \/ DoAppendParam("b2", Keys)
    \/ DoReset("b1")

SpecAppend == InitAppend /\ [][NextAppend]_vars

BindingOps == MustOps \cup IfDefinedOps \cup {"AppendParam"}

\* C28: the temporary operator remapping ('=' to ' IN ', '<>' to ' NOT IN ')
\* done while rendering a value-set binding or embedding a sub-query is not
\* observable afterwards: after any binding operation or
\* AddSubQueryForColumn returns, the current operator and the current
\* prefix equal their values before the call.
C28_OperatorRestored ==
    [][ \A b \in Builders :
          ( /\ lastOp'.b = b
            /\ lastOp'.op \in BindingOps \cup {"AddSubQueryForColumn"} )
          => /\ bld'[b].myParamOperator = bld[b].myParamOperator
             /\ bld'[b].myParamPrefix = bld[b].myParamPrefix
      ]_vars

C28_Witness ==
    /\ lastOp.op = "MustAddParamForColumn"
    /\ lastOp.col = "c"
    /\ bld["b1"].myParamOperator = "<>"
    /\ bld["b1"].mySql = " \"c\" NOT IN (:a_1,:a_2)"

AppendingOps ==
    BindingOps \cup {"Add", "AddFieldList", "ApplyOrderByList", "AddQueryLimit",
                     "AddSubQueryForColumn", "ApplyFilter"}

\* C29: the text is append-only under the appending operations: each of
\* Add, AddFieldList, ApplyOrderByList, AddQueryLimit, AppendParam,
\* MustAddParam*, AddParam*IfDefined, AddSubQueryForColumn and ApplyFilter
\* leaves the text it found as a prefix of the text it leaves.
C29_TextIsAppendOnly ==
    [][ \A b \in Builders :
          (lastOp'.b = b /\ lastOp'.op \in AppendingOps)
          => HasPrefixAt(bld'[b].mySql, 1, bld[b].mySql)
      ]_vars

C29_Witness ==
    /\ lastOp.op = "MustAddParam"
    /\ bld["b1"].myParamOperator = "="
    /\ bld["b1"].mySql = " , \"a\" IN (:a_1,:a_2)"

\* the map values whose trimmed, upper-cased form is 'DESC'
DescendingValues ==
    {v \in UNION {{Deref(l)[k] : k \in DOMAIN Deref(l)} : l \in OrderByLists \ {Nil}} :
        ToUpper(TrimSpace(v)) = "DESC"}

\* the direction the clause gives a map value
DirectionOf(v) == IF v \in DescendingValues THEN "DESC" ELSE "ASC"

\* the entries '<field> <direction>' of a map, visited in the given order
EntriesOf(list, order) ==
    [i \in 1 .. Len(order) |-> order[i] \o " " \o DirectionOf(list[order[i]])]

-----------------------------------------------------------------------------
(* Specification of filters: b2 is restarted as a filter from any state    *)
(* and applied onto its parent b1, for every dialect                       *)

\* StartFilter on a builder whatever its text
DoRestartFilter(b) == Call("StartFilter", b, "", "", "", StartFilter(World, b))

InitFilter == \E driverName \in {MySQL, PostgreSQL, SQLite} :
    InitWith(DriverInfo(driverName, TRUE))

NextFilter ==
    \/ DoStartWith("b2", LimitTexts)
    \/ DoSetParamPrefix("b2")
    \/ DoSetParam("b2", Keys)
    \/ DoAppendParam("b2", Keys)
    \/ DoRestartFilter("b2")
    \/ DoSetParamPrefix("b1")
    \/ DoApplyFilter("b1", "b2")
    \/ DoReset("b1")

SpecFilter == InitFilter /\ [][NextFilter]_vars

\* the always-true literal of the dialect
TrueLiteral(driverName) == IF driverName = MySQL THEN "1" ELSE "true"

\* C30: StartFilter, from any prior state, leaves null mode on, the prefix
\* equal to ' AND ', and the text equal to exactly the dialect's always-true
\* literal ('1' for MySQL, 'true' for PostgreSQL and every other dialect),
\* discarding prior text and leaving the parameter tables unchanged; a
\* following ApplyFilter of that builder onto a parent appends
\* '<parent prefix><literal>...' to the parent.
C30_StartFilterSeedsLiteral ==
    [][ \A b \in Builders :
          /\ (lastOp'.op = "StartFilter" /\ lastOp'.b = b)
             => /\ bld'[b].bUseIsNull
                /\ bld'[b].myParamPrefix = " AND "
                /\ bld'[b].mySql = TrueLiteral(dbModel.info.Name)
                /\ Params(WorldNext, b) = Params(World, b)
                /\ SetParams(WorldNext, b) = SetParams(World, b)
          /\ ( /\ lastOp'.op = "ApplyFilter"
               /\ lastOp'.b = b
               /\ HasPrefixAt(bld[lastOp'.key].mySql, 1,
                              TrueLiteral(dbModel.info.Name)) )
             => bld'[b].mySql =
                   bld[b].mySql \o bld[b].myParamPrefix \o bld[lastOp'.key].mySql
      ]_vars

C30_Witness ==
    /\ lastOp.op = "ApplyFilter"
    /\ dbModel.info.Name = MySQL
    /\ bld["b2"].bUseIsNull
    /\ "a" \in DOMAIN Params(World, "b1")
    /\ bld["b2"].mySql = "1 AND 'a'=:a"
    /\ bld["b1"].mySql = ", 1 AND 'a'=:a"

-----------------------------------------------------------------------------
(* Specification of the transaction nesting *)

TxLogged(name, b, w) ==
    /\ ~panicked
    /\ Len(hist) < MaxHist
    /\ Becomes(w, Op(name, b, "", "", ""))
    /\ hist' = Append(hist,
            [op |-> name, b |-> b, ncalls |-> Len(w.calls),
             flags |-> [x \in Builders |-> w.bld[x].myTransactionFlag],
             inTx |-> w.db.inTransaction])

DoBeginTransaction == \E b \in Builders :
    TxLogged("BeginTransaction", b, BeginTransaction(World, b))

DoCommitTransaction == \E b \in Builders :
    TxLogged("CommitTransaction", b, CommitTransaction(World, b))

DoRollbackTransaction == \E b \in Builders :
    TxLogged("RollbackTransaction", b, RollbackTransaction(World, b))

\* another layer that uses the same model begins or ends a transaction
OuterBegin ==
    /\ ~DbInTransaction(World)
    /\ TxLogged("OuterBegin", "outer", DbBeginTransaction(World, "outer"))

OuterCommit ==
    /\ DbInTransaction(World)
    /\ TxLogged("OuterCommit", "outer", DbCommitTransaction(World, "outer"))

\* the nesting counter never reads the dialect
InitTx == InitWith(DriverInfo(PostgreSQL, FALSE))

NextTx ==
    \/ DoBeginTransaction
    \/ DoCommitTransaction
    \/ DoRollbackTransaction
    \/ OuterBegin
    \/ OuterCommit

SpecTx == InitTx /\ [][NextTx]_vars

\* what held before the i-th logged transaction operation
FlagsBefore(i) == IF i = 1 THEN [x \in Builders |-> 0] ELSE hist[i - 1].flags
InTxBefore(i) == IF i = 1 THEN FALSE ELSE hist[i - 1].inTx
NCallsBefore(i) == IF i = 1 THEN 0 ELSE hist[i - 1].ncalls
\* the model calls the i-th .. j-th logged operations made
CallsOf(i, j) == SubSeq(dbCalls, NCallsBefore(i) + 1, hist[j].ncalls)

\* hist[i .. i+2n-1] is n BeginTransaction then n CommitTransaction calls on
\* b, the first of them at depth 0 with the model not in a transaction
IsNestedRun(b, i, n) ==
    /\ i + 2 * n - 1 <= Len(hist)
    /\ FlagsBefore(i)[b] = 0
    /\ ~InTxBefore(i)
    /\ \A k \in i .. (i + n - 1) :
          hist[k].op = "BeginTransaction" /\ hist[k].b = b
    /\ \A k \in (i + n) .. (i + 2 * n - 1) :
          hist[k].op = "CommitTransaction" /\ hist[k].b = b

\* C1: n >= 1 nested BeginTransaction calls followed by n CommitTransaction
\* calls, started at depth 0 with the model not in a transaction, make
\* exactly one model BeginTransaction and exactly one model
\* CommitTransaction, the latter issued by the last CommitTransaction.
C1_NestedBeginCommitCollapses ==
    \A b \in Builders : \A i \in 1 .. Len(hist) : \A n \in 1 .. Len(hist) :
        IsNestedRun(b, i, n) =>
            LET j == i + 2 * n - 1 IN
            /\ CallsOf(i, j) = << [call |-> "Begin", by |-> b],
                                  [call |-> "Commit", by |-> b] >>
            /\ CallsOf(i, j - 1) = << [call |-> "Begin", by |-> b] >>

C1_Witness ==
    \E b \in Builders : IsNestedRun(b, 1, 3) /\ Len(dbCalls) = 2

\* hist[i] is a BeginTransaction on b at depth 0 while the model already
\* reports a transaction, and hist[j] is the call that brings b back to 0
IsInnerPair(b, i, j) ==
    /\ i < j /\ j <= Len(hist)
    /\ hist[i].op = "BeginTransaction" /\ hist[i].b = b
    /\ FlagsBefore(i)[b] = 0
    /\ InTxBefore(i)
    /\ hist[j].op \in {"CommitTransaction", "RollbackTransaction"}
    /\ hist[j].b = b
    /\ hist[j].flags[b] = 0
    /\ \A k \in i .. (j - 1) : hist[k].flags[b] > 0

\* C2: a BeginTransaction at depth 0 while the model already reports
\* InTransaction() issues no real begin, and its matching CommitTransaction
\* or RollbackTransaction issues no real commit or rollback.
C2_OuterTransactionNotEnded ==
    \A b \in Builders : \A i, j \in 1 .. Len(hist) :
        IsInnerPair(b, i, j) =>
            /\ CallsOf(i, i) = <<>>
            /\ CallsOf(j, j) = <<>>

\* the last logged operation is a commit or rollback on b at depth 0
EndsAtDepthZero(h, b) ==
    /\ Len(h) > 0
    /\ h[Len(h)].op \in {"CommitTransaction", "RollbackTransaction"}
    /\ h[Len(h)].b = b
    /\ (IF Len(h) = 1 THEN 0 ELSE h[Len(h) - 1].flags[b]) = 0

\* C3: the transaction depth is never negative, and a CommitTransaction or
\* RollbackTransaction called at depth 0 leaves the depth at 0 and issues no
\* model commit or rollback.
C3_DepthFloor ==
    /\ \A b \in Builders : bld[b].myTransactionFlag >= 0
    /\ [][ /\ \A b \in Builders : bld'[b].myTransactionFlag >= 0
           /\ \A b \in Builders :
                (hist' # hist /\ EndsAtDepthZero(hist', b)) =>
                    /\ bld'[b].myTransactionFlag = 0
                    /\ bld' = bld
                    /\ dbCalls' = dbCalls
                    /\ dbModel' = dbModel ]_vars

C3_Witness ==
    \E b \in Builders :
        /\ EndsAtDepthZero(hist, b)
        /\ Len(hist) > 1
        /\ bld[b].myTransactionFlag = 0

\* the operations hist[i .. i+Len(ops)-1] are ops, all on builder b
IsRunOf(b, i, ops) ==
    /\ i + Len(ops) - 1 <= Len(hist)
    /\ \A k \in 1 .. Len(ops) :
          hist[i + k - 1].op = ops[k] /\ hist[i + k - 1].b = b

EndOps == {"CommitTransaction", "RollbackTransaction"}

\* the model call an operation that ends a transaction makes
EndCall(op, b) ==
    IF op = "CommitTransaction" THEN [call |-> "Commit", by |-> b]
    ELSE [call |-> "Rollback", by |-> b]

\* C26: only the 0->1 depth transition of BeginTransaction can call the
\* model's begin, and only the call that brings the depth from 1 to 0 calls
\* the model's commit or rollback: BeginTransaction at depth >= 1 and
\* CommitTransaction/RollbackTransaction at depth >= 2 make no model call,
\* so begin, begin, rollback, commit ends in one real commit and no real
\* rollback.
C26_OutermostCallDecides ==
    \A b \in Builders : \A i \in 1 .. Len(hist) :
        /\ (hist[i].b = b /\ hist[i].op = "BeginTransaction"
               /\ FlagsBefore(i)[b] >= 1)
           => CallsOf(i, i) = <<>>
        /\ (hist[i].b = b /\ hist[i].op \in EndOps /\ FlagsBefore(i)[b] >= 2)
           => CallsOf(i, i) = <<>>
        /\ (hist[i].b = b /\ hist[i].op \in EndOps /\ FlagsBefore(i)[b] = 1)
           => CallsOf(i, i) = <<EndCall(hist[i].op, b)>>
        /\ ( /\ FlagsBefore(i)[b] = 0
             /\ ~InTxBefore(i)
             /\ IsRunOf(b, i, <<"BeginTransaction", "BeginTransaction",
                                "RollbackTransaction", "CommitTransaction">>) )
           => CallsOf(i, i + 3) = << [call |-> "Begin", by |-> b],
                                     [call |-> "Commit", by |-> b] >>

C26_Witness ==
    /\ IsRunOf("b1", 1, <<"BeginTransaction", "BeginTransaction",
                          "RollbackTransaction", "CommitTransaction">>)
    /\ Len(hist) = 4
    /\ dbCalls = << [call |-> "Begin", by |-> "b1"],
                    [call |-> "Commit", by |-> "b1"] >>

-----------------------------------------------------------------------------
(* StartWith and the setters, on one builder *)

FrameTexts == {"", "x=:a", "SELECT 1"}

InitFrame == InitWith(DriverInfo(PostgreSQL, TRUE))

NextFrame ==
    \/ DoStartWith("b1", FrameTexts)
    \/ DoStartWhereClause("b1")
    \/ DoSetParamPrefix("b1")
    \/ DoSetParamOperator("b1")
    \/ DoSetParam("b1", Keys)
    \/ DoSetNullableParam("b1", Keys)
    \/ DoSetParamSet("b1", Keys)
    \/ DoReset("b1")

SpecFrame == InitFrame /\ [][NextFrame]_vars

SetterOps ==
    {"SetParamPrefix", "SetParamOperator", "SetParam", "SetNullableParam",
     "SetParamSet"}

\* C31: StartWith(text) sets the text to exactly the given text and leaves
\* the parameter table, the parameter-set table, the prefix, the operator and
\* the null mode unchanged; SetParamPrefix, SetParamOperator, SetParam,
\* SetNullableParam and SetParamSet leave the text unchanged.
C31_StartWithAndSettersFrame ==
    [][ \A b \in Builders :
          /\ (lastOp'.op = "StartWith" /\ lastOp'.b = b)
             => /\ bld'[b].mySql = lastOp'.ret
                /\ Params(WorldNext, b) = Params(World, b)
                /\ SetParams(WorldNext, b) = SetParams(World, b)
                /\ bld'[b].myParamPrefix = bld[b].myParamPrefix
                /\ bld'[b].myParamOperator = bld[b].myParamOperator
                /\ bld'[b].bUseIsNull = bld[b].bUseIsNull
          /\ (lastOp'.op \in SetterOps /\ lastOp'.b = b)
             => bld'[b].mySql = bld[b].mySql
      ]_vars

C31_Witness ==
    /\ lastOp.op \in SetterOps
    /\ lastOp.b = "b1"
    /\ bld["b1"].mySql = "x=:a"
    /\ bld["b1"].bUseIsNull
    /\ bld["b1"].myParamPrefix = ", "
    /\ bld["b1"].myParamOperator = "<>"
    /\ "a" \in DOMAIN Params(World, "b1")
    /\ "a" \in DOMAIN SetParams(World, "b1")

-----------------------------------------------------------------------------
(* Specification of identifier quoting: every dialect, identifiers that      *)
(* hold the delimiters                                                       *)

MaxIdLen == 3

RECURSIVE StringsOver(_, _)
StringsOver(alphabet, n) ==
    IF n = 0 THEN {""}
    ELSE LET shorter == StringsOver(alphabet, n - 1) IN
         shorter \cup {c \o s : c \in alphabet, s \in shorter}

Identifiers == StringsOver({"c", BackTick, DoubleQuote}, MaxIdLen)

DoGetQuoted(b) == \E aIdentifier \in Identifiers :
    Call("GetQuoted", b, aIdentifier, "", GetQuoted(World, b, aIdentifier), World)

InitQuote == \E info \in DriverInfos : InitWith(info)

NextQuote == \E b \in Builders : DoGetQuoted(b)

SpecQuote == InitQuote /\ [][NextQuote]_vars

\* the identifier delimiter of a dialect
DelimiterOf(driverName) == IF driverName = MySQL THEN BackTick ELSE DoubleQuote

\* delim occurs in s only in adjacent pairs
RECURSIVE InPairsOnly(_, _)
InPairsOnly(s, delim) ==
    IF Len(s) = 0 THEN TRUE
    ELSE IF CharAt(s, 1) # delim THEN InPairsOnly(SubSeq(s, 2, Len(s)), delim)
    ELSE /\ Len(s) >= 2
         /\ CharAt(s, 2) = delim
         /\ InPairsOnly(SubSeq(s, 3, Len(s)), delim)

\* s with every pair of delimiters replaced by one delimiter
RECURSIVE Undoubled(_, _)
Undoubled(s, delim) ==
    IF Len(s) = 0 THEN ""
    ELSE IF Len(s) >= 2 /\ CharAt(s, 1) = delim /\ CharAt(s, 2) = delim
    THEN delim \o Undoubled(SubSeq(s, 3, Len(s)), delim)
    ELSE CharAt(s, 1) \o Undoubled(SubSeq(s, 2, Len(s)), delim)

\* C40: GetQuoted(identifier) returns the identifier between two delimiters
\* of the bound dialect (backtick for MySQL, double quote for PostgreSQL and
\* SQLite) with every delimiter inside it doubled: between the first and
\* the last character of the result the delimiter occurs only in adjacent
\* pairs, and un-doubling the inner part gives back the identifier.
C40_QuotedRoundTrip ==
    lastOp.op = "GetQuoted"
    => LET quoted == lastOp.ret
           delim == DelimiterOf(dbModel.info.Name)
           inner == SubSeq(quoted, 2, Len(quoted) - 1)
       IN /\ Len(quoted) >= 2
          /\ CharAt(quoted, 1) = delim
          /\ CharAt(quoted, Len(quoted)) = delim
          /\ InPairsOnly(inner, delim)
          /\ Undoubled(inner, delim) = lastOp.key

C40_Witness ==
    /\ lastOp.op = "GetQuoted"
    /\ dbModel.info.Name = MySQL
    /\ lastOp.key = BackTick \o "c" \o DoubleQuote
    /\ lastOp.ret = BackTick \o BackTick \o BackTick \o "c" \o DoubleQuote \o BackTick

====
